---- MODULE Spec2Model ----
(***************************************************************************)
(* Threat-detection engine (MLThreatDetection) and security event pipeline *)
(* (SecurityMonitor) of the network-monitoring dashboard.                  *)
(*                                                                         *)
(* JavaScript runs one job at a time: a job (a timer callback, a promise   *)
(* reaction, a DOM event handler) runs to completion, and an `await`       *)
(* suspends the async function and queues its continuation as a microtask. *)
(* The model keeps the microtask queue of suspended createSecurityEvent    *)
(* calls explicitly; everything that is synchronous in the code is one     *)
(* action, except the listeners.forEach loop, which is one action per      *)
(* iteration because the callbacks are foreign code that may call back     *)
(* into the monitor.                                                       *)
(***************************************************************************)
EXTENDS Integers, Sequences, FiniteSets, TLC

\* ------------------------------------------------------------------------
\* Program constants
\* ------------------------------------------------------------------------
MaxEvents == 100
RequestVolumeLimit == 100
FailedAttemptLimit == 5
SlowResponseMs == 10000
MemoryLimitPercent == 90
RapidClickLimit == 10
PageChangeLimit == 20
NormalPatternCount == 200
ThreatPatternCount == 50
NumTrees == 50
MaxTrainingData == 1000
TrimTo == 800
RetrainInterval == 50
HistoryWindowMs == 300000

\* ------------------------------------------------------------------------
\* Bounds of the model
\* ------------------------------------------------------------------------
\* direct retrainWithFeedback calls explored by SpecEngine
MaxFeedbackCalls == 960

\* createSecurityEvent calls that may be suspended at their await at once
MaxPending == 2

\* requests to the one domain of SpecRequests, and how many of them get a 404
MaxRequests == 102

MaxClientErrors == 7

\* events SpecBuffer creates, and how many of them are memory alerts
MaxBufferEvents == 102

MaxMemoryAlerts == 1

\* SpecPipeline: events created before the triggers stop, subscribers,
\* clicks, page changes and requests
MaxPipelineEvents == 5

MaxPipelineCallbacks == 2

MaxClicks == 11

MaxPageChanges == 21

MaxPipelineRequests == 7

\* SpecSubscribers: callbacks that subscribe and unsubscribe, events created
MaxCallbacks == 3

MaxSubscriberEvents == 2

\* SpecTraining: trees a forest has pushed when its training throws midway,
\* direct retrainWithFeedback calls, direct detectThreats calls
TreesBuiltBeforeThrow == 20

MaxTrainingFeedback == 110

MaxTrainingDetections == 3

\* SpecSnapshot: events created, clock ticks, length of a tick in ms
MaxSnapshotEvents == 3

MaxTicks == 1

TickMs == 1000

\* SpecScoring: direct detectThreats calls
MaxScoringCalls == 2

\* ms between the construction of the services and the handlers explored
Uptime == 60000

\* label streams the feedback driver of SpecEngine feeds
LabelPatterns == {"alternating", "normal", "threat"}

VARIABLES
    mlThreatDetection,  \* the engine singleton: trainingData, featureHistory,
                        \* isTraining, modelTrained, randomForest, isolationForest
    feedbackLog,        \* per retrainWithFeedback call: size after it, retrained or not
    labelPattern,       \* the label stream of the direct feedback driver
    now,                \* Date.now(), ms since the services were constructed
    events,             \* SecurityMonitor.events
    failedAttempts,     \* SecurityMonitor.failedAttempts
    requestCounts,      \* SecurityMonitor.requestCounts
    listeners,          \* SecurityMonitor.listeners
    networkMetrics,     \* SecurityMonitor.networkMetrics
    microtasks,         \* createSecurityEvent calls suspended at their await, oldest first
    dispatch,           \* the createSecurityEvent continuation that is running, if any
    closures,           \* callbacks for which onSecurityEvent has returned an unsubscribe function
    rapidClicks,        \* the click listener's rapidClicks counter
    pageChanges,        \* the beforeunload listener's pageChanges counter
    published,          \* every event pushed to the buffer so far, in push order
    delivered,          \* what the subscriber callbacks have been called with, in call order
    lastCall,           \* the last call made from outside (window.fetch, detectThreats)
                        \* and what its caller got back
    pingResults,        \* NetworkMonitor.pingResults
    realTimeMonitor,    \* RealTimeMonitor: isRunning, the intervals and the
                        \* data-transfer observers that are active
    deviceDiscovery,    \* DeviceDiscovery: devices, scanInProgress, the scan and
                        \* the connectivity check that are under way
    handles             \* unsubscribe functions a subscriber holds, in the order
                        \* onSecurityEvent returned them, with the calls made of each

engineVars == <<mlThreatDetection, feedbackLog, labelPattern, now, lastCall>>

monitorVars == <<events, failedAttempts, requestCounts, listeners, networkMetrics,
                 microtasks, dispatch, closures, rapidClicks, pageChanges, published,
                 delivered>>

vars == <<mlThreatDetection, feedbackLog, labelPattern, now, events, failedAttempts,
          requestCounts, listeners, networkMetrics, microtasks, dispatch, closures,
          rapidClicks, pageChanges, published, delivered, lastCall, pingResults,
          realTimeMonitor, deviceDiscovery, handles>>

serviceVars == <<pingResults, realTimeMonitor, deviceDiscovery>>

\* ------------------------------------------------------------------------
\* Helpers
\* ------------------------------------------------------------------------
\* Array.prototype.slice(-n)
SliceLast(s, n) ==
    IF Len(s) <= n THEN s ELSE SubSeq(s, Len(s) - n + 1, Len(s))

\* ------------------------------------------------------------------------
\* MLThreatDetection
\* ------------------------------------------------------------------------
\* One draw of generateNormalTrafficPatterns: every slot at the middle of
\* its range (the draws are independent of everything the model observes).
NormalPattern == <<35, 2, 150, 600, 6, 1, 0, 45, 25, 3, 2>>

\* One draw of generateThreatPatterns, every slot at the middle of its range.
ThreatPattern == <<200, 35, 1500, 3500, 45, 15, 8, 90, 85, 45, 20>>

InitialTrainingData ==
    [i \in 1..(NormalPatternCount + ThreatPatternCount) |->
        IF i <= NormalPatternCount
        THEN [features |-> NormalPattern, label |-> 0]
        ELSE [features |-> ThreatPattern, label |-> 1]]

\* RandomForest.train / IsolationForest.train: the trees are thrown away and
\* new ones are built from the data and pushed one by one; `built` is how
\* many were pushed when the call returned (NumTrees) or threw (fewer);
\* `generation` counts rebuilds.
ForestTrainUpTo(forest, data, built) ==
    [trees |-> built, samples |-> Len(data), generation |-> forest.generation + 1]

ForestTrain(forest, data) ==
    ForestTrainUpTo(forest, data, NumTrees)

\* How a trainModels call goes is an input of the model: no statement of the
\* training code is known to throw on the data the engine holds, so a throw
\* is a choice of the environment, made of the forest that throws and of the
\* number of trees it had pushed by then.
NoFailure == [throws |-> "none", built |-> NumTrees]

\* The states the engine passes through inside the try block of trainModels,
\* at statement boundaries, up to the return or the throw.
TrainingStages(ml, outcome) ==
    LET entered == [ml EXCEPT !.isTraining = TRUE]
        cleared == [entered EXCEPT !.randomForest.trees = 0]
        rfBuilt == IF outcome.throws = "randomForest" THEN outcome.built ELSE NumTrees
        afterRf == [entered EXCEPT
                       !.randomForest = ForestTrainUpTo(@, ml.trainingData, rfBuilt)]
        ifBuilt == IF outcome.throws = "isolationForest" THEN outcome.built ELSE NumTrees
        afterIf == [afterRf EXCEPT
                       !.isolationForest = ForestTrainUpTo(@, ml.trainingData, ifBuilt)]
        trained == [afterIf EXCEPT !.modelTrained = TRUE]
    IN  CASE outcome.throws = "randomForest" -> <<entered, cleared, afterRf>>
          [] outcome.throws = "isolationForest" -> <<entered, cleared, afterRf, afterIf>>
          [] OTHER -> <<entered, cleared, afterRf, afterIf, trained>>

\* a trainModels that gives the thread away while the first forest is empty
TrainModelsSuspended(ml, outcome) ==
    IF ml.isTraining THEN ml ELSE TrainingStages(ml, outcome)[2]

\* a trainModels without its `this.modelTrained = true`
TrainModelsForgetsFlag(ml, outcome) ==
    IF ml.isTraining THEN ml
    ELSE LET stages == TrainingStages(ml, outcome)
             last == IF Len(stages) > 4 THEN 4 ELSE Len(stages)
         IN  [stages[last] EXCEPT !.isTraining = FALSE]

\* trainModels has no await before its last statement, so the call runs
\* through its stages without another job in between; the catch block only
\* logs, and the finally block clears isTraining.
TrainModels(ml, outcome) ==
    IF ml.isTraining THEN ml
    ELSE LET stages == TrainingStages(ml, outcome)
         IN  [stages[Len(stages)] EXCEPT !.isTraining = FALSE]

\* new MLThreatDetection(): the fields, then initializeTrainingData
ConstructEngine(outcome) ==
    TrainModels([trainingData |-> InitialTrainingData,
                 featureHistory |-> <<>>,
                 isTraining |-> FALSE,
                 modelTrained |-> FALSE,
                 randomForest |-> [trees |-> 0, samples |-> 0, generation |-> 0],
                 isolationForest |-> [trees |-> 0, samples |-> 0, generation |-> 0]],
                outcome)

NewEngine == ConstructEngine(NoFailure)

\* the 11-slot vector built at the top of detectThreats and retrainWithFeedback
FeatureVector(features) ==
    <<features.requestCount, features.failedRequests, features.responseTime,
      features.dataTransferred, features.uniqueDomains, features.httpErrors,
      features.suspiciousPatterns, features.memoryUsage, features.cpuUsage,
      features.clickRate, features.navigationRate>>

AppendSample(data, features, isThreat) ==
    Append(data, [features |-> FeatureVector(features),
                  label |-> IF isThreat THEN 1 ELSE 0])

TrimKeepOldest(data) ==
    IF Len(data) > MaxTrainingData THEN SubSeq(data, 1, TrimTo) ELSE data

TrimTrainingData(data) ==
    IF Len(data) > MaxTrainingData THEN SliceLast(data, TrimTo) ELSE data

ShouldRetrainUntrimmed(data) ==
    Len(data) % RetrainInterval = 0 /\ Len(data) # TrimTo

ShouldRetrainDoubled(data) ==
    Len(data) % (2 * RetrainInterval) = 0

ShouldRetrain(data) ==
    Len(data) % RetrainInterval = 0

RetrainWithFeedback(ml, features, isThreat, outcome) ==
    LET trimmed == TrimTrainingData(AppendSample(ml.trainingData, features, isThreat))
        stored == [ml EXCEPT !.trainingData = trimmed]
    IN  IF ShouldRetrain(trimmed) THEN TrainModels(stored, outcome) ELSE stored

\* what one retrainWithFeedback call did, as seen from outside
LogEntry(before, after) ==
    [size |-> Len(after.trainingData),
     retrained |-> after.randomForest.generation # before.randomForest.generation]

\* ------------------------------------------------------------------------
\* Direct feedback driver (SpecEngine): a caller that feeds the engine one
\* feature object per call; requestCount carries the ordinal of the call so
\* that the fed samples can be told apart.
\* ------------------------------------------------------------------------
FedFeatures(k) ==
    [timestamp |-> 0, requestCount |-> k, failedRequests |-> 0, responseTime |-> 0,
     dataTransferred |-> 0, uniqueDomains |-> 0, httpErrors |-> 0,
     suspiciousPatterns |-> 0, memoryUsage |-> 0, cpuUsage |-> 0,
     clickRate |-> 0, navigationRate |-> 0]

PatternLabel(pattern, k) ==
    CASE pattern = "alternating" -> (k % 2 = 1)
      [] pattern = "threat" -> TRUE
      [] OTHER -> FALSE

FeedEngine ==
    /\ labelPattern \in LabelPatterns
    /\ Len(feedbackLog) < MaxFeedbackCalls
    /\ LET k == Len(feedbackLog) + 1
           after == RetrainWithFeedback(mlThreatDetection, FedFeatures(k),
                                        PatternLabel(labelPattern, k), NoFailure)
       IN  /\ mlThreatDetection' = after
           /\ feedbackLog' = Append(feedbackLog, LogEntry(mlThreatDetection, after))
    /\ UNCHANGED <<labelPattern, now, lastCall>>
    /\ UNCHANGED monitorVars
    /\ UNCHANGED serviceVars
    /\ UNCHANGED handles

\* ------------------------------------------------------------------------
\* MLThreatDetection: scoring. Anomaly scores and confidences are in
\* thousandths, threat scores in ten-thousandths, so that 0.4 times an anomaly
\* score is exact.
\* ------------------------------------------------------------------------
\* networkData.x || 0
OrZero(record, field) ==
    IF field \in DOMAIN record THEN record[field] ELSE 0

ExtractFeatures(networkData, time) ==
    [timestamp |-> time,
     requestCount |-> OrZero(networkData, "requestCount"),
     failedRequests |-> OrZero(networkData, "failedRequests"),
     responseTime |-> OrZero(networkData, "averageResponseTime"),
     dataTransferred |-> OrZero(networkData, "totalDataTransferred"),
     uniqueDomains |-> OrZero(networkData, "uniqueDomains"),
     httpErrors |-> OrZero(networkData, "httpErrors"),
     suspiciousPatterns |-> OrZero(networkData, "suspiciousPatterns"),
     memoryUsage |-> OrZero(networkData, "memoryUsage"),
     cpuUsage |-> OrZero(networkData, "cpuUsage"),
     clickRate |-> OrZero(networkData, "clickRate"),
     navigationRate |-> OrZero(networkData, "navigationRate")]

\* featureHistory.filter(f => Date.now() - f.timestamp < 300000)
RecentHistory(history, time) ==
    SelectSeq(history, LAMBDA f : time - f.timestamp < HistoryWindowMs)

\* A leaf of a decision tree is described by the labels of the samples that
\* reached it in training: [normal |-> count of label 0, threat |-> count of
\* label 1], not both 0. The leaf a vector ends in depends on the bootstrap
\* draws and is an input of the model.
\*
\* JavaScript values a tree can hand back: [type, label] with type "number",
\* "string" (the key "0" or "1") or "entry" (the array [key, count]).
\*
\* majorityClass: Object.entries(counts).reduce(...) without an initial
\* value. With one label among the samples the only entry is returned as it
\* is; with two, a is the entry ["0", n], parseInt(a) reads 0 from "0,n", and
\* the result is a itself when label 0 has strictly more samples and the key
\* b[0] = "1" otherwise.
MajorityClassFirstOnTie(leaf) ==
    IF leaf.threat = 0 THEN [type |-> "entry", label |-> 0]
    ELSE IF leaf.normal = 0 THEN [type |-> "entry", label |-> 1]
    ELSE IF leaf.normal >= leaf.threat THEN [type |-> "entry", label |-> 0]
    ELSE [type |-> "string", label |-> 1]

MajorityClass(leaf) ==
    IF leaf.threat = 0 THEN [type |-> "entry", label |-> 0]
    ELSE IF leaf.normal = 0 THEN [type |-> "entry", label |-> 1]
    ELSE IF leaf.normal > leaf.threat THEN [type |-> "entry", label |-> 0]
    ELSE [type |-> "string", label |-> 1]

\* ------------------------------------------------------------------------
\* DecisionTree
\* ------------------------------------------------------------------------
\* Training data are sequences of samples [features, label]; feature indices
\* count from 1 here and from 0 in the source. A tree is a record: a leaf
\* [isLeaf |-> TRUE, prediction] or a node [isLeaf |-> FALSE, featureIndex,
\* threshold, leftChild, rightChild]. Thresholds are midpoints of two feature
\* values and are kept doubled; gini values are exact fractions [num, den].

\* train(data, maxDepth = 10, minSamples = 2)
MaxDepth == 10

MinSamples == 2

\* the counts object majorityClass and giniImpurity build from the labels
LabelCounts(data) ==
    [normal |-> Cardinality({i \in DOMAIN data : data[i].label = 0}),
     threat |-> Cardinality({i \in DOMAIN data : data[i].label = 1})]

IsPure(data) ==
    IF Len(data) = 0 THEN TRUE
    ELSE \A i \in DOMAIN data : data[i].label = data[1].label

\* sample.features[featureIndex] <= threshold goes left
SplitData(data, featureIndex, threshold) ==
    [left  |-> SelectSeq(data, LAMBDA sample :
                   2 * sample.features[featureIndex] <= threshold),
     right |-> SelectSeq(data, LAMBDA sample :
                   2 * sample.features[featureIndex] > threshold)]

\* 1 - sum of (count / total)^2
GiniImpurity(data) ==
    IF Len(data) = 0 THEN [num |-> 0, den |-> 1]
    ELSE LET counts == LabelCounts(data)
             total == Len(data)
         IN  [num |-> total * total - counts.normal * counts.normal
                                    - counts.threat * counts.threat,
              den |-> total * total]

\* Infinity
InfiniteGini == [num |-> 1, den |-> 0]

\* a < b on gini values
GiniLess(a, b) == a.num * b.den < b.num * a.den

CalculateGini(data, featureIndex, threshold) ==
    LET parts == SplitData(data, featureIndex, threshold)
        totalSize == Len(data)
        leftSize == Len(parts.left)
        rightSize == Len(parts.right)
        leftGini == GiniImpurity(parts.left)
        rightGini == GiniImpurity(parts.right)
    IN  IF leftSize = 0 \/ rightSize = 0 THEN InfiniteGini
        ELSE [num |-> leftSize * leftGini.num * rightGini.den
                      + rightSize * rightGini.num * leftGini.den,
              den |-> totalSize * leftGini.den * rightGini.den]

\* data.map(d => d.features[featureIndex]).sort((a, b) => a - b)
SortedValues(data, featureIndex) ==
    LET value(j) == data[j].features[featureIndex]
    IN  [i \in 1..Len(data) |->
            CHOOSE v \in {value(j) : j \in DOMAIN data} :
                /\ Cardinality({j \in DOMAIN data : value(j) < v}) < i
                /\ i <= Cardinality({j \in DOMAIN data : value(j) <= v})]

\* bestSplit = null
NoSplit == [featureIndex |-> 0, threshold |-> 0, gini |-> InfiniteGini]

\* the k-th pass of the two loops of findBestSplit: features outside, the
\* neighbouring pairs of sorted values inside
SplitCandidate(data, k) ==
    LET pairs == Len(data) - 1
        featureIndex == ((k - 1) \div pairs) + 1
        i == ((k - 1) % pairs) + 1
        values == SortedValues(data, featureIndex)
        threshold == values[i] + values[i + 1]
    IN  [featureIndex |-> featureIndex, threshold |-> threshold,
         gini |-> CalculateGini(data, featureIndex, threshold)]

RECURSIVE BestSplitFrom(_, _, _)
BestSplitFrom(data, k, bestSplit) ==
    LET numFeatures == IF Len(data) = 0 THEN 0 ELSE Len(data[1].features)
    IN  IF Len(data) < 2 \/ k > numFeatures * (Len(data) - 1) THEN bestSplit
        ELSE LET candidate == SplitCandidate(data, k)
             IN  BestSplitFrom(data, k + 1,
                     IF GiniLess(candidate.gini, bestSplit.gini)
                     THEN candidate ELSE bestSplit)

FindBestSplit(data) == BestSplitFrom(data, 1, NoSplit)

RECURSIVE DecisionTreeTrain(_, _)
DecisionTreeTrain(data, maxDepth) ==
    LET leaf == [isLeaf |-> TRUE, prediction |-> MajorityClass(LabelCounts(data))]
    IN  IF maxDepth = 0 \/ Len(data) < MinSamples \/ IsPure(data) THEN leaf
        ELSE LET bestSplit == FindBestSplit(data)
             IN  IF bestSplit = NoSplit THEN leaf
                 ELSE LET parts == SplitData(data, bestSplit.featureIndex,
                                             bestSplit.threshold)
                      IN  [isLeaf |-> FALSE,
                           featureIndex |-> bestSplit.featureIndex,
                           threshold |-> bestSplit.threshold,
                           leftChild |-> DecisionTreeTrain(parts.left, maxDepth - 1),
                           rightChild |-> DecisionTreeTrain(parts.right, maxDepth - 1)]

RECURSIVE DecisionTreePredict(_, _)
DecisionTreePredict(tree, features) ==
    IF tree.isLeaf THEN tree.prediction
    ELSE IF 2 * features[tree.featureIndex] <= tree.threshold
         THEN DecisionTreePredict(tree.leftChild, features)
         ELSE DecisionTreePredict(tree.rightChild, features)

\* this.trees.map(tree => tree.predict(features)): what each tree of the
\* forest returns, which is the `prediction` its leaf got from majorityClass
TreePredictions(forest, leaves) ==
    [i \in 1..forest.trees |-> MajorityClass(leaves[i])]

\* p === 1
StrictlyEqualsOne(p) ==
    p.type = "number" /\ p.label = 1

\* predictions.filter(p => p === 1).length
ThreatCount(predictions) ==
    Cardinality({i \in DOMAIN predictions : StrictlyEqualsOne(predictions[i])})

\* RandomForest.predict; numTrees is the configured number of trees
RandomForestPredict(forest, leaves) ==
    LET threatCount == ThreatCount(TreePredictions(forest, leaves))
        fraction == (threatCount * 1000) \div NumTrees
        distance == IF fraction >= 500 THEN fraction - 500 ELSE 500 - fraction
    IN  [prediction |-> IF 2 * threatCount > NumTrees THEN 1 ELSE 0,
         confidence |-> distance * 2]

\* an isolation forest that flags a score of exactly 0.6
IsolationForestPredictInclusive(anomalyScore) ==
    [anomalyScore |-> anomalyScore, isAnomaly |-> anomalyScore >= 600]

\* IsolationForest.predict: the score comes from randomly built trees and is
\* an input of the model; the flag is derived from it as in the code.
IsolationForestPredict(anomalyScore) ==
    [anomalyScore |-> anomalyScore, isAnomaly |-> anomalyScore > 600]

\* a ladder whose thresholds belong to the higher level
RiskLevelInclusive(threatScore) ==
    IF threatScore >= 8000 THEN "critical"
    ELSE IF threatScore >= 6000 THEN "high"
    ELSE IF threatScore >= 4000 THEN "medium"
    ELSE "low"

RiskLevel(threatScore) ==
    IF threatScore > 8000 THEN "critical"
    ELSE IF threatScore > 6000 THEN "high"
    ELSE IF threatScore > 4000 THEN "medium"
    ELSE "low"

ContributingFeatures(features) ==
    (IF features.failedRequests > 10 THEN <<"High failed requests">> ELSE <<>>)
    \o (IF features.requestCount > 100 THEN <<"Excessive request volume">> ELSE <<>>)
    \o (IF features.responseTime > 1000 THEN <<"Slow response times">> ELSE <<>>)
    \o (IF features.suspiciousPatterns > 5 THEN <<"Suspicious patterns detected">> ELSE <<>>)
    \o (IF features.memoryUsage > 80 THEN <<"High memory usage">> ELSE <<>>)
    \o (IF features.clickRate > 20 THEN <<"Abnormal click patterns">> ELSE <<>>)

\* a neutral prediction that claims full confidence
NeutralPredictionConfident ==
    [isAnomaly |-> FALSE, threatScore |-> 0, confidence |-> 1000, riskLevel |-> "low",
     features |-> <<>>, algorithm |-> "ensemble"]

NeutralPrediction ==
    [isAnomaly |-> FALSE, threatScore |-> 0, confidence |-> 0, riskLevel |-> "low",
     features |-> <<>>, algorithm |-> "ensemble"]

EnsemblePredictionSwapped(rfResult, ifResult, features) ==
    LET threatScore == rfResult.prediction * 4000 + ifResult.anomalyScore * 6
        confidence == (rfResult.confidence
                       + (IF ifResult.anomalyScore > 600 THEN 1000 ELSE 0)) \div 2
    IN  [isAnomaly |-> rfResult.prediction = 1 \/ ifResult.isAnomaly,
         threatScore |-> threatScore,
         confidence |-> confidence,
         riskLevel |-> RiskLevel(threatScore),
         features |-> ContributingFeatures(features),
         algorithm |-> "ensemble"]

\* the ensemble step of detectThreats: the prediction it returns for what
\* the two forests returned
EnsemblePrediction(rfResult, ifResult, features) ==
    LET threatScore == rfResult.prediction * 6000 + ifResult.anomalyScore * 4
        confidence == (rfResult.confidence
                       + (IF ifResult.anomalyScore > 600 THEN 1000 ELSE 0)) \div 2
    IN  [isAnomaly |-> rfResult.prediction = 1 \/ ifResult.isAnomaly,
         threatScore |-> threatScore,
         confidence |-> confidence,
         riskLevel |-> RiskLevel(threatScore),
         features |-> ContributingFeatures(features),
         algorithm |-> "ensemble"]

\* detectThreats: the engine after the call, the prediction it returns, and
\* what the two forests returned inside the call
DetectThreats(ml, networkData, leaves, anomalyScore, time) ==
    IF ~ml.modelTrained
    THEN [engine |-> ml, prediction |-> NeutralPrediction, scoredByForests |-> FALSE]
    ELSE
        LET features == ExtractFeatures(networkData, time)
            history == RecentHistory(Append(ml.featureHistory, features), time)
            rfResult == RandomForestPredict(ml.randomForest, leaves)
            ifResult == IsolationForestPredict(anomalyScore)
        IN  [engine |-> [ml EXCEPT !.featureHistory = history],
             prediction |-> EnsemblePrediction(rfResult, ifResult, features),
             scoredByForests |-> TRUE,
             rfResult |-> rfResult,
             ifResult |-> ifResult]

\* getModelStats; lastTrainingTime is new Date() taken at the call
GetModelStats(ml, time) ==
    [trainingDataSize |-> Len(ml.trainingData),
     modelTrained |-> ml.modelTrained,
     featureHistorySize |-> Len(ml.featureHistory),
     lastTrainingTime |-> IF ml.modelTrained THEN time ELSE 0]

\* ------------------------------------------------------------------------
\* SecurityMonitor
\* ------------------------------------------------------------------------
\* new Map()
EmptyMap == [k \in {} |-> 0]

\* map.get(key) || 0
MapGet(map, key) == IF key \in DOMAIN map THEN map[key] ELSE 0

\* map.set(key, value)
MapSet(map, key, value) ==
    [k \in DOMAIN map \cup {key} |-> IF k = key THEN value ELSE map[k]]

InitialMetrics(time) ==
    [requestCount |-> 0, failedRequests |-> 0, totalResponseTime |-> 0,
     totalDataTransferred |-> 0, uniqueDomains |-> {}, httpErrors |-> 0,
     suspiciousPatterns |-> 0, clickCount |-> 0, navigationCount |-> 0,
     startTime |-> time]

\* what a division by a zero timeElapsed gives for a positive count
Infinity == 10 ^ 9

\* (count / timeElapsed) * 60 with timeElapsed in seconds; 0 / 0 is NaN,
\* which every reader of the rate (extractFeatures' `|| 0`) turns into 0
PerMinute(count, elapsedMs) ==
    IF elapsedMs = 0 THEN (IF count = 0 THEN 0 ELSE Infinity)
    ELSE (count * 60000) \div elapsedMs

\* obs is what the call reads from outside the program: the heap usage in
\* percent (performance.memory), the Math.random() CPU estimate, and the
\* isolation forest's score for the vector.
GetNetworkDataForML(metrics, obs, time) ==
    LET requests == IF metrics.requestCount > 1 THEN metrics.requestCount ELSE 1
    IN  [requestCount |-> metrics.requestCount,
         failedRequests |-> metrics.failedRequests,
         averageResponseTime |-> metrics.totalResponseTime \div requests,
         totalDataTransferred |-> metrics.totalDataTransferred,
         uniqueDomains |-> Cardinality(metrics.uniqueDomains),
         httpErrors |-> metrics.httpErrors,
         suspiciousPatterns |-> metrics.suspiciousPatterns,
         memoryUsage |-> obs.heap,
         cpuUsage |-> obs.cpu,
         clickRate |-> PerMinute(metrics.clickCount, time - metrics.startTime),
         navigationRate |-> PerMinute(metrics.navigationCount, time - metrics.startTime)]

\* createSecurityEvent calls made so far; the model uses the ordinal of the
\* call as the event's id (the code draws a random string)
Created == Len(published) + Len(microtasks)

\* createSecurityEvent up to its await: the metrics snapshot and the
\* detectThreats call run at once, the rest is queued as a microtask.
\* w is [ml, microtasks], threaded through the calls one handler makes.
CreateSecurityEvent(w, eventData, metrics, obs) ==
    LET networkData == GetNetworkDataForML(metrics, obs, now)
        scored == DetectThreats(w.ml, networkData, obs.leaves, obs.score, now)
    IN  [ml |-> scored.engine,
         microtasks |-> Append(w.microtasks,
                               [id |-> Len(published) + Len(w.microtasks) + 1,
                                eventData |-> eventData,
                                networkData |-> networkData,
                                mlPrediction |-> scored.prediction])]

SuspiciousPattern(metrics) ==
    [metrics EXCEPT !.suspiciousPatterns = @ + 1]

NoTask == [id |-> 0]

Idle == [pc |-> "idle", task |-> NoTask, index |-> 0, len |-> 0, audience |-> <<>>]

\* a promise reaction (the fetch wrapper resuming after its await, a
\* suspended createSecurityEvent) can start: no job is running
NoJobRunning == dispatch.pc = "idle"

\* a task (timer callback, DOM event listener) can start: no job is running
\* and the microtask queue has been drained
TaskCanStart == NoJobRunning /\ microtasks = <<>>

UnchangedSubscribers == UNCHANGED <<listeners, closures, delivered>>

UnchangedBuffer == UNCHANGED <<events, published, dispatch>>

UnchangedBehavior == UNCHANGED <<rapidClicks, pageChanges>>

\* analyzeRequest(url, status, responseTime), called by the fetch wrapper
\* when the response arrives
AnalyzeRequest(domain, status, responseTime, obs) ==
    LET counted == [networkMetrics EXCEPT
                        !.requestCount = @ + 1,
                        !.totalResponseTime = @ + responseTime,
                        !.uniqueDomains = @ \cup {domain},
                        !.failedRequests = IF status >= 400 THEN @ + 1 ELSE @,
                        !.httpErrors = IF status >= 400 THEN @ + 1 ELSE @]
        currentCount == MapGet(requestCounts, domain)
        volume == currentCount > RequestVolumeLimit
        m1 == IF volume THEN SuspiciousPattern(counted) ELSE counted
        w0 == [ml |-> mlThreatDetection, microtasks |-> microtasks]
        w1 == IF volume
              THEN CreateSecurityEvent(w0,
                       [type |-> "resource_abuse", severity |-> "medium", source |-> domain,
                        details |-> [requestCount |-> currentCount]], m1, obs)
              ELSE w0
        clientError == status >= 400 /\ status < 500
        failedCount == MapGet(failedAttempts, domain)
        repeated == clientError /\ failedCount > FailedAttemptLimit
        m2 == IF repeated THEN SuspiciousPattern(m1) ELSE m1
        w2 == IF repeated
              THEN CreateSecurityEvent(w1,
                       [type |-> "failed_auth", severity |-> "high", source |-> domain,
                        details |-> [failedCount |-> failedCount, status |-> status]], m2, obs)
              ELSE w1
        slow == responseTime > SlowResponseMs
        m3 == IF slow THEN SuspiciousPattern(m2) ELSE m2
        w3 == IF slow
              THEN CreateSecurityEvent(w2,
                       [type |-> "unusual_activity", severity |-> "low", source |-> domain,
                        details |-> [responseTime |-> responseTime]], m3, obs)
              ELSE w2
    IN  /\ NoJobRunning
        /\ requestCounts' = MapSet(requestCounts, domain, currentCount + 1)
        /\ failedAttempts' = IF clientError
                             THEN MapSet(failedAttempts, domain, failedCount + 1)
                             ELSE failedAttempts
        /\ networkMetrics' = m3
        /\ mlThreatDetection' = w3.ml
        /\ microtasks' = w3.microtasks
        /\ UNCHANGED <<feedbackLog, labelPattern, now>>
        /\ UnchangedSubscribers
        /\ UnchangedBuffer
        /\ UnchangedBehavior
        /\ UNCHANGED serviceVars
        /\ UNCHANGED handles

\* recordFailedRequest(url, error), called by the fetch wrapper when the
\* request throws
RecordFailedRequest(domain, obs) ==
    LET m == SuspiciousPattern([networkMetrics EXCEPT !.failedRequests = @ + 1])
        w == CreateSecurityEvent([ml |-> mlThreatDetection, microtasks |-> microtasks],
                 [type |-> "suspicious_request", severity |-> "medium", source |-> domain,
                  details |-> [error |-> "error"]], m, obs)
    IN  /\ NoJobRunning
        /\ networkMetrics' = m
        /\ mlThreatDetection' = w.ml
        /\ microtasks' = w.microtasks
        /\ UNCHANGED <<feedbackLog, labelPattern, now, requestCounts, failedAttempts>>
        /\ UnchangedSubscribers
        /\ UnchangedBuffer
        /\ UnchangedBehavior
        /\ UNCHANGED serviceVars
        /\ UNCHANGED handles

\* The instrumented window.fetch after its `await originalFetch(...)`: the
\* response is analysed and handed to the caller (lines 49-55)
NoCall == [op |-> "none", n |-> 0]

FetchResolves(domain, status, responseTime, obs) ==
    /\ AnalyzeRequest(domain, status, responseTime, obs)
    /\ lastCall' = [op |-> "fetch", n |-> lastCall.n + 1, domain |-> domain,
                    originalFetch |-> "resolves", status |-> status,
                    outcome |-> "response"]

\* a catch block that ends without rethrowing: the caller gets undefined
SwallowsError == "undefined"

\* what the catch block of the instrumented fetch leaves its caller with
\* after recordFailedRequest: `throw error`
AfterRecordFailedRequest == "throws"

\* The instrumented window.fetch when originalFetch rejects (lines 56-59)
FetchRejects(domain, obs) ==
    /\ RecordFailedRequest(domain, obs)
    /\ lastCall' = [op |-> "fetch", n |-> lastCall.n + 1, domain |-> domain,
                    originalFetch |-> "rejects", status |-> 0,
                    outcome |-> AfterRecordFailedRequest]

\* the 30 s interval callback of monitorResourceUsage
MemoryTimer(obs) ==
    LET high == obs.heap > MemoryLimitPercent
        m == IF high THEN SuspiciousPattern(networkMetrics) ELSE networkMetrics
        w0 == [ml |-> mlThreatDetection, microtasks |-> microtasks]
        w == IF high
             THEN CreateSecurityEvent(w0,
                      [type |-> "resource_abuse", severity |-> "high", source |-> "localhost",
                       details |-> [memoryUsage |-> obs.heap]], m, obs)
             ELSE w0
    IN  /\ TaskCanStart
        /\ networkMetrics' = m
        /\ mlThreatDetection' = w.ml
        /\ microtasks' = w.microtasks
        /\ UNCHANGED <<feedbackLog, labelPattern, now, lastCall, requestCounts, failedAttempts>>
        /\ UnchangedSubscribers
        /\ UnchangedBuffer
        /\ UnchangedBehavior
        /\ UNCHANGED serviceVars
        /\ UNCHANGED handles

\* the click listener of monitorUserBehavior; it also schedules the timeout
\* that takes the click out of rapidClicks a second later
HandleClick(obs) ==
    LET clicks == rapidClicks + 1
        counted == [networkMetrics EXCEPT !.clickCount = @ + 1]
        rapid == clicks > RapidClickLimit
        m == IF rapid THEN SuspiciousPattern(counted) ELSE counted
        w0 == [ml |-> mlThreatDetection, microtasks |-> microtasks]
        w == IF rapid
             THEN CreateSecurityEvent(w0,
                      [type |-> "unusual_activity", severity |-> "medium", source |-> "localhost",
                       details |-> [clicksPerSecond |-> clicks]], m, obs)
             ELSE w0
    IN  /\ TaskCanStart
        /\ rapidClicks' = clicks
        /\ networkMetrics' = m
        /\ mlThreatDetection' = w.ml
        /\ microtasks' = w.microtasks
        /\ UNCHANGED <<feedbackLog, labelPattern, now, lastCall, requestCounts, failedAttempts,
                       pageChanges>>
        /\ UnchangedSubscribers
        /\ UnchangedBuffer
        /\ UNCHANGED serviceVars
        /\ UNCHANGED handles

\* the timeout a click scheduled: rapidClicks = Math.max(0, rapidClicks - 1);
\* one is outstanding for every click still counted in rapidClicks
RapidClickTimeout ==
    /\ TaskCanStart
    /\ rapidClicks > 0
    /\ rapidClicks' = (IF rapidClicks - 1 > 0 THEN rapidClicks - 1 ELSE 0)
    /\ UNCHANGED <<events, published, microtasks, dispatch, delivered, closures, listeners,
                   failedAttempts, requestCounts, networkMetrics, pageChanges>>
    /\ UNCHANGED engineVars
    /\ UNCHANGED serviceVars
    /\ UNCHANGED handles

\* the beforeunload listener of monitorUserBehavior
HandleBeforeUnload(obs) ==
    LET changes == pageChanges + 1
        counted == [networkMetrics EXCEPT !.navigationCount = @ + 1]
        excessive == changes > PageChangeLimit
        m == IF excessive THEN SuspiciousPattern(counted) ELSE counted
        w0 == [ml |-> mlThreatDetection, microtasks |-> microtasks]
        w == IF excessive
             THEN CreateSecurityEvent(w0,
                      [type |-> "unusual_activity", severity |-> "low", source |-> "localhost",
                       details |-> [pageChanges |-> changes]], m, obs)
             ELSE w0
    IN  /\ TaskCanStart
        /\ pageChanges' = changes
        /\ networkMetrics' = m
        /\ mlThreatDetection' = w.ml
        /\ microtasks' = w.microtasks
        /\ UNCHANGED <<feedbackLog, labelPattern, now, lastCall, requestCounts, failedAttempts,
                       rapidClicks>>
        /\ UnchangedSubscribers
        /\ UnchangedBuffer
        /\ UNCHANGED serviceVars
        /\ UNCHANGED handles

\* this.events.push(event); if (this.events.length > 100) this.events.shift()
PushEventDropNewest(buffer, event) ==
    LET pushed == Append(buffer, event)
    IN  IF Len(pushed) > MaxEvents THEN SubSeq(pushed, 1, MaxEvents) ELSE pushed

PushEvent(buffer, event) ==
    LET pushed == Append(buffer, event)
    IN  IF Len(pushed) > MaxEvents THEN Tail(pushed) ELSE pushed

\* the continuation the microtask queue runs next
NewestMicrotask(queue) == queue[Len(queue)]

NextMicrotask(queue) == Head(queue)

WithoutMicrotask(queue, task) ==
    SelectSeq(queue, LAMBDA t : t.id # task.id)

\* createSecurityEvent after its await, up to the forEach: the event is
\* built and pushed, and the forEach fixes the number of indices it visits
ResumeCreateSecurityEvent ==
    /\ NoJobRunning
    /\ microtasks # <<>>
    /\ LET task == NextMicrotask(microtasks)
           event == [id |-> task.id,
                     timestamp |-> now,
                     type |-> task.eventData.type,
                     severity |-> task.eventData.severity,
                     source |-> task.eventData.source,
                     details |-> task.eventData.details,
                     mlPrediction |-> task.mlPrediction]
       IN  /\ microtasks' = WithoutMicrotask(microtasks, task)
           /\ events' = PushEvent(events, event)
           /\ published' = Append(published, event)
           /\ dispatch' = [pc |-> "notify", task |-> task, index |-> 0,
                           len |-> Len(listeners), audience |-> listeners]
    /\ UNCHANGED <<failedAttempts, requestCounts, networkMetrics>>
    /\ UNCHANGED engineVars
    /\ UnchangedBehavior
    /\ UnchangedSubscribers
    /\ UNCHANGED serviceVars
    /\ UNCHANGED handles

\* listeners.indexOf(callback), 1-based, 0 when absent
IndexOf(seq, x) ==
    IF \E i \in 1..Len(seq) : seq[i] = x
    THEN CHOOSE i \in 1..Len(seq) : seq[i] = x /\ \A j \in 1..(i - 1) : seq[j] # x
    ELSE 0

\* listeners.splice(index, 1)
Splice(seq, i) == SubSeq(seq, 1, i - 1) \o SubSeq(seq, i + 1, Len(seq))

\* the function onSecurityEvent returns
Unsubscribe(registered, callback) ==
    LET index == IndexOf(registered, callback)
    IN  IF index > 0 THEN Splice(registered, index) ELSE registered

\* what a callback does with the monitor while it runs
Passive == [kind |-> "none", target |-> 0]

AfterCallback(registered, behaviour) ==
    CASE behaviour.kind = "unsubscribe" -> Unsubscribe(registered, behaviour.target)
      [] behaviour.kind = "subscribe" -> Append(registered, behaviour.target)
      [] OTHER -> registered

\* one iteration of this.listeners.forEach(listener => listener(event)):
\* forEach visits the indices below the length it read when it started and
\* skips an index the array no longer has
NotifyListener(behaviour) ==
    /\ dispatch.pc = "notify"
    /\ dispatch.index < dispatch.len
    /\ LET k == dispatch.index + 1
       IN  IF k > Len(listeners)
           THEN /\ behaviour = Passive
                /\ UnchangedSubscribers
           ELSE /\ behaviour.kind = "unsubscribe" => behaviour.target \in closures
                /\ delivered' = Append(delivered, [callback |-> listeners[k],
                                                   event |-> dispatch.task.id])
                /\ listeners' = AfterCallback(listeners, behaviour)
                /\ closures' = IF behaviour.kind = "subscribe"
                               THEN closures \cup {behaviour.target} ELSE closures
    /\ dispatch' = [dispatch EXCEPT !.index = @ + 1]
    /\ UNCHANGED <<events, published, microtasks, failedAttempts, requestCounts,
                   networkMetrics>>
    /\ UNCHANGED engineVars
    /\ UnchangedBehavior
    /\ UNCHANGED serviceVars
    /\ UNCHANGED handles

IsThreatCriticalOnly(severity) == severity = "critical"

IsThreatFromMedium(severity) == severity \in {"critical", "high", "medium"}

\* eventData.severity === 'critical' || eventData.severity === 'high'
IsThreat(severity) == severity = "critical" \/ severity = "high"

\* a feedback step that takes a new snapshot of the metrics
FreshFeedbackData(task, metrics) ==
    GetNetworkDataForML(metrics, [heap |-> 50, cpu |-> 20], now)

\* the object extractFeatures is given at line 226: the `networkData` the
\* call took before its await
FeedbackData(task, metrics) == task.networkData

\* createSecurityEvent after the forEach: the feedback to the engine
ProvideFeedback ==
    /\ dispatch.pc = "notify"
    /\ dispatch.index = dispatch.len
    /\ LET task == dispatch.task
           isThreat == IsThreat(task.eventData.severity)
           features == ExtractFeatures(FeedbackData(task, networkMetrics), now)
           after == RetrainWithFeedback(mlThreatDetection, features, isThreat, NoFailure)
       IN  /\ mlThreatDetection' = after
           /\ feedbackLog' = Append(feedbackLog, LogEntry(mlThreatDetection, after))
    /\ dispatch' = Idle
    /\ UNCHANGED <<labelPattern, now, lastCall, events, published, microtasks, failedAttempts,
                   requestCounts, networkMetrics>>
    /\ UnchangedSubscribers
    /\ UnchangedBehavior
    /\ UNCHANGED serviceVars
    /\ UNCHANGED handles

\* resetMetrics(), called from outside a dispatch
ResetMetrics ==
    /\ NoJobRunning
    /\ networkMetrics' = InitialMetrics(now)
    /\ UNCHANGED <<events, published, microtasks, dispatch, delivered, failedAttempts,
                   requestCounts>>
    /\ UNCHANGED engineVars
    /\ UnchangedSubscribers
    /\ UnchangedBehavior
    /\ UNCHANGED serviceVars
    /\ UNCHANGED handles

\* time passes between two jobs
Tick(ms) ==
    /\ NoJobRunning
    /\ now' = now + ms
    /\ UNCHANGED <<mlThreatDetection, feedbackLog, labelPattern, lastCall>>
    /\ UNCHANGED monitorVars
    /\ UNCHANGED serviceVars
    /\ UNCHANGED handles

\* onSecurityEvent(callback), called from outside a dispatch
OnSecurityEvent(callback) ==
    /\ NoJobRunning
    /\ listeners' = Append(listeners, callback)
    /\ closures' = closures \cup {callback}
    /\ UNCHANGED <<events, published, microtasks, dispatch, delivered, failedAttempts,
                   requestCounts, networkMetrics>>
    /\ UNCHANGED engineVars
    /\ UnchangedBehavior
    /\ UNCHANGED serviceVars

\* a call of the function onSecurityEvent returned, from outside a dispatch
CallUnsubscribe(callback) ==
    /\ NoJobRunning
    /\ callback \in closures
    /\ listeners' = Unsubscribe(listeners, callback)
    /\ UNCHANGED <<events, published, microtasks, dispatch, delivered, closures,
                   failedAttempts, requestCounts, networkMetrics>>
    /\ UNCHANGED engineVars
    /\ UnchangedBehavior
    /\ UNCHANGED serviceVars

\* ------------------------------------------------------------------------
\* Direct calls of the exported engine
\* ------------------------------------------------------------------------
\* mlThreatDetection.detectThreats(networkData), called by any importer of
\* the singleton; lastCall keeps what the call was given and what it gave back
CallDetectThreats(networkData, obs) ==
    /\ LET scored == DetectThreats(mlThreatDetection, networkData, obs.leaves,
                                   obs.score, now)
           call == [op |-> "detectThreats", n |-> lastCall.n + 1,
                    networkData |-> networkData, leaves |-> obs.leaves,
                    anomalyScore |-> obs.score,
                    scoredByForests |-> scored.scoredByForests,
                    prediction |-> scored.prediction]
       IN  /\ mlThreatDetection' = scored.engine
           /\ lastCall' = IF scored.scoredByForests
                          THEN call @@ [rfResult |-> scored.rfResult,
                                        ifResult |-> scored.ifResult]
                          ELSE call
    /\ UNCHANGED <<feedbackLog, labelPattern, now>>
    /\ UNCHANGED monitorVars
    /\ UNCHANGED serviceVars
    /\ UNCHANGED handles

\* mlThreatDetection.getModelStats(), called directly
CallGetModelStats ==
    /\ NoJobRunning
    /\ lastCall' = [op |-> "getModelStats", n |-> lastCall.n + 1, at |-> now,
                    stats |-> GetModelStats(mlThreatDetection, now)]
    /\ UNCHANGED <<mlThreatDetection, feedbackLog, labelPattern, now>>
    /\ UNCHANGED monitorVars
    /\ UNCHANGED serviceVars
    /\ UNCHANGED handles

\* mlThreatDetection.retrainWithFeedback(features, isThreat), called directly;
\* outcome is how the training run goes if the call starts one
CallRetrainWithFeedback(features, isThreat, outcome) ==
    /\ LET after == RetrainWithFeedback(mlThreatDetection, features, isThreat, outcome)
       IN  /\ mlThreatDetection' = after
           /\ feedbackLog' = Append(feedbackLog, LogEntry(mlThreatDetection, after))
    /\ UNCHANGED <<labelPattern, now, lastCall>>
    /\ UNCHANGED monitorVars
    /\ UNCHANGED serviceVars
    /\ UNCHANGED handles

\* ------------------------------------------------------------------------
\* Specifications
\* ------------------------------------------------------------------------
\* ------------------------------------------------------------------------
\* NetworkMonitor
\* ------------------------------------------------------------------------
\* pingResults maps a host to the array of its results. A result is
\* [host, success, n]; n numbers the pings of the host in the order they
\* completed and stands for the timestamp.

\* new Map(): no host has been pinged
NoPingResults == [host \in {} |-> <<>>]

\* hostResults.length > 50
PingHistoryLimit == 50

\* getPingHistory: this.pingResults.get(host) || []
GetPingHistory(results, host) ==
    IF host \in DOMAIN results THEN results[host] ELSE <<>>

\* if (!this.pingResults.has(host)) this.pingResults.set(host, [])
WithHost(results, host) ==
    [h \in DOMAIN results \cup {host} |->
        IF h \in DOMAIN results THEN results[h] ELSE <<>>]

PingResult(results, host, success) ==
    LET history == GetPingHistory(results, host)
    IN  [host |-> host, success |-> success,
         n |-> IF history = <<>> THEN 1 ELSE history[Len(history)].n + 1]

\* pingHost after its fetch resolved: push, then shift when over the limit
PingHostResolves(host) ==
    /\ NoJobRunning
    /\ LET result == PingResult(pingResults, host, TRUE)
           hostResults == Append(WithHost(pingResults, host)[host], result)
       IN  pingResults' =
               [WithHost(pingResults, host) EXCEPT ![host] =
                   IF Len(hostResults) > PingHistoryLimit
                   THEN Tail(hostResults) ELSE hostResults]
    /\ UNCHANGED engineVars
    /\ UNCHANGED monitorVars
    /\ UNCHANGED <<realTimeMonitor, deviceDiscovery, handles>>

\* pingHost after its fetch rejected or was aborted: the catch block pushes
PingHostRejects(host) ==
    /\ NoJobRunning
    /\ LET result == PingResult(pingResults, host, FALSE)
       IN  pingResults' =
               [WithHost(pingResults, host) EXCEPT ![host] =
                   Append(WithHost(pingResults, host)[host], result)]
    /\ UNCHANGED engineVars
    /\ UNCHANGED monitorVars
    /\ UNCHANGED <<realTimeMonitor, deviceDiscovery, handles>>

\* ------------------------------------------------------------------------
\* RealTimeMonitor
\* ------------------------------------------------------------------------
\* realTimeMonitor holds the fields isRunning and intervalId (0 for null) and
\* what the calls of start have left with the browser: `intervals`, the ids
\* of the setInterval timers not cleared, `timers`, the number of setInterval
\* calls made (the next id), and `observers`, the number of
\* PerformanceObservers that monitorDataTransfer has created and that
\* observe resource entries. `pending` holds the transfer size of a resource
\* entry once for every observer whose callback has still to run for it.
\* `broadcasts` counts the collectAndBroadcastData calls and `largeTransfers`
\* the resources of more than 10MB loaded; these two are history only.
NewRealTimeMonitor ==
    [isRunning |-> FALSE, intervalId |-> 0, intervals |-> {}, timers |-> 0,
     observers |-> 0, pending |-> <<>>, broadcasts |-> 0, largeTransfers |-> 0]

\* 10 * 1024 * 1024
LargeTransferBytes == 10485760

\* securityMonitor.monitorDataTransfer(): a new PerformanceObserver observes
\* resource entries; nothing ever disconnects it
MonitorDataTransfer(rtm) ==
    [rtm EXCEPT !.observers = @ + 1]

\* collectAndBroadcastData reads the other services and calls the
\* listeners; it writes no field
CollectAndBroadcastData(rtm) ==
    [rtm EXCEPT !.broadcasts = @ + 1]

\* start()
Start(rtm) ==
    IF rtm.isRunning THEN rtm
    ELSE LET observing == MonitorDataTransfer([rtm EXCEPT !.isRunning = TRUE])
             id == observing.timers + 1
             polling == [observing EXCEPT !.timers = id, !.intervalId = id,
                                          !.intervals = @ \cup {id}]
         IN  CollectAndBroadcastData(polling)

\* stop()
Stop(rtm) ==
    LET stopped == [rtm EXCEPT !.isRunning = FALSE]
    IN  IF stopped.intervalId # 0
        THEN [stopped EXCEPT !.intervals = @ \ {stopped.intervalId},
                             !.intervalId = 0]
        ELSE stopped

\* realTimeMonitor.start(), called when a component mounts
RealTimeMonitorStart ==
    /\ TaskCanStart
    /\ realTimeMonitor' = Start(realTimeMonitor)
    /\ UNCHANGED engineVars
    /\ UNCHANGED monitorVars
    /\ UNCHANGED <<pingResults, deviceDiscovery, handles>>

\* realTimeMonitor.stop(), called when a component unmounts
RealTimeMonitorStop ==
    /\ TaskCanStart
    /\ realTimeMonitor' = Stop(realTimeMonitor)
    /\ UNCHANGED engineVars
    /\ UNCHANGED monitorVars
    /\ UNCHANGED <<pingResults, deviceDiscovery, handles>>

\* the callback of a setInterval timer that has not been cleared
IntervalFires(id) ==
    /\ TaskCanStart
    /\ id \in realTimeMonitor.intervals
    /\ realTimeMonitor' = CollectAndBroadcastData(realTimeMonitor)
    /\ UNCHANGED engineVars
    /\ UNCHANGED monitorVars
    /\ UNCHANGED <<pingResults, deviceDiscovery, handles>>

\* the page has loaded a resource of transferSize bytes: the browser queues
\* its entry for every PerformanceObserver that observes resource entries
ResourceLoaded(transferSize) ==
    /\ TaskCanStart
    /\ realTimeMonitor.pending = <<>>
    /\ realTimeMonitor' =
          [realTimeMonitor EXCEPT
              !.pending = [i \in 1..realTimeMonitor.observers |-> transferSize],
              !.largeTransfers = IF transferSize > LargeTransferBytes
                                 THEN @ + 1 ELSE @]
    /\ UNCHANGED engineVars
    /\ UNCHANGED monitorVars
    /\ UNCHANGED <<pingResults, deviceDiscovery, handles>>

\* the callback of one PerformanceObserver of monitorDataTransfer, given the
\* entry of a resource loaded from host
ObserverCallback(host, obs) ==
    LET transferSize == Head(realTimeMonitor.pending)
        large == transferSize > LargeTransferBytes
        w0 == [ml |-> mlThreatDetection, microtasks |-> microtasks]
        w == IF large
             THEN CreateSecurityEvent(w0,
                      [type |-> "unusual_activity", severity |-> "medium", source |-> host,
                       details |-> [size |-> transferSize]], networkMetrics, obs)
             ELSE w0
    IN  /\ TaskCanStart
        /\ realTimeMonitor.pending # <<>>
        /\ realTimeMonitor' = [realTimeMonitor EXCEPT !.pending = Tail(@)]
        /\ mlThreatDetection' = w.ml
        /\ microtasks' = w.microtasks
        /\ UNCHANGED <<feedbackLog, labelPattern, now, lastCall, requestCounts,
                       failedAttempts, networkMetrics>>
        /\ UnchangedSubscribers
        /\ UnchangedBuffer
        /\ UnchangedBehavior
        /\ UNCHANGED <<pingResults, deviceDiscovery, handles>>

\* ------------------------------------------------------------------------
\* DeviceDiscovery
\* ------------------------------------------------------------------------
\* deviceDiscovery holds the fields `devices` (the Map, as the sequence of
\* its values [id, ip, status] in insertion order) and scanInProgress, and
\* the asynchronous calls under way: `scans`, the scanNetwork bodies that
\* passed the guard and have not reached the end of their finally block,
\* each [pc, outstanding] with pc "range" (awaiting getLocalNetworkRange),
\* "probing" (awaiting Promise.allSettled, `outstanding` the addresses whose
\* probeDevice has not completed) or "self" (awaiting addCurrentDevice); and
\* `checks`, the quickConnectivityCheck calls under way, each the part of its
\* knownDevices snapshot it has still to ping. History only: `cleared`
\* (refreshDevices was called), `knownAtClear` (ids in the map at the last
\* clear), `foundSince` (ids a probe completing after the last clear found
\* responding), `ownSince` (id addCurrentDevice has set after the last clear).

\* the addresses probeDevice is called for (the code probes 254 addresses of
\* the local range and 10 of each alternative range)
ProbedAddresses == {"192.168.1.1", "192.168.1.7"}

\* what getCurrentDeviceIP resolves to: null, or the address of the browser
OwnAddresses == {"null", "192.168.1.7"}

\* scanNetwork up to its first await
ScanNetwork(dd) ==
    IF dd.scanInProgress THEN dd
    ELSE [dd EXCEPT !.scanInProgress = TRUE,
                    !.scans = Append(@, [pc |-> "range", outstanding |-> {}])]

\* the constructor calls startPeriodicScan, which starts the initial scan
NewDeviceDiscovery ==
    ScanNetwork([devices |-> <<>>, scanInProgress |-> FALSE, scans |-> <<>>,
                 checks |-> <<>>, cleared |-> FALSE, knownAtClear |-> {},
                 foundSince |-> {}, ownSince |-> {}])

DeviceIds(devices) == {devices[i].id : i \in DOMAIN devices}

\* this.devices.set(device.id, device): a known key keeps its place
DevicesSet(devices, device) ==
    IF device.id \in DeviceIds(devices)
    THEN [i \in DOMAIN devices |->
             IF devices[i].id = device.id THEN device ELSE devices[i]]
    ELSE Append(devices, device)

\* getDevices: Array.from(this.devices.values())
GetDevices(dd) == dd.devices

\* history: a probe that completed just now found id responding
FoundResponding(dd, id, responding) ==
    IF responding /\ dd.cleared
    THEN [dd EXCEPT !.foundSince = @ \cup {id}]
    ELSE dd

UnchangedByDiscovery ==
    /\ UNCHANGED engineVars
    /\ UNCHANGED monitorVars
    /\ UNCHANGED <<pingResults, realTimeMonitor, handles>>

\* the 30 s interval callback of startPeriodicScan
ScanTimer ==
    /\ TaskCanStart
    /\ deviceDiscovery' = ScanNetwork(deviceDiscovery)
    /\ UnchangedByDiscovery

\* scanNetwork s after `await this.getLocalNetworkRange()`: probeDevice is
\* called for every address
RangeResolved(s) ==
    /\ NoJobRunning
    /\ s \in DOMAIN deviceDiscovery.scans
    /\ deviceDiscovery.scans[s].pc = "range"
    /\ deviceDiscovery' =
          [deviceDiscovery EXCEPT
              !.scans[s] = [pc |-> "probing", outstanding |-> ProbedAddresses]]
    /\ UnchangedByDiscovery

\* probeDevice(ip) of scan s after its Promise.allSettled; with the last of
\* them the allSettled of scanNetwork resolves and addCurrentDevice starts
ProbeCompletes(s, ip, successful) ==
    /\ NoJobRunning
    /\ s \in DOMAIN deviceDiscovery.scans
    /\ deviceDiscovery.scans[s].pc = "probing"
    /\ ip \in deviceDiscovery.scans[s].outstanding
    /\ LET outstanding == deviceDiscovery.scans[s].outstanding \ {ip}
           probed == [deviceDiscovery EXCEPT
                         !.devices = IF successful
                                     THEN DevicesSet(@, [id |-> ip, ip |-> ip,
                                                         status |-> "responding"])
                                     ELSE @,
                         !.scans[s] = [pc |-> IF outstanding = {} THEN "self"
                                              ELSE "probing",
                                       outstanding |-> outstanding]]
       IN  deviceDiscovery' = FoundResponding(probed, ip, successful)
    /\ UnchangedByDiscovery

\* scanNetwork s after getCurrentDeviceIP resolved: addCurrentDevice sets the
\* browser's entry, the finally block resets scanInProgress, the listeners
\* are notified
OwnAddressResolved(s, localIP) ==
    /\ NoJobRunning
    /\ s \in DOMAIN deviceDiscovery.scans
    /\ deviceDiscovery.scans[s].pc = "self"
    /\ LET currentDevice == [id |-> IF localIP = "null" THEN "current" ELSE localIP,
                             ip |-> IF localIP = "null" THEN "Unknown" ELSE localIP,
                             status |-> "online"]
       IN  deviceDiscovery' =
              [deviceDiscovery EXCEPT
                  !.devices = DevicesSet(@, currentDevice),
                  !.scanInProgress = FALSE,
                  !.scans = Splice(@, s),
                  !.ownSince = IF deviceDiscovery.cleared
                               THEN @ \cup {currentDevice.id} ELSE @]
    /\ UnchangedByDiscovery

\* refreshDevices(): the map is cleared and scanNetwork is called
RefreshDevices ==
    /\ TaskCanStart
    /\ deviceDiscovery' =
          ScanNetwork([deviceDiscovery EXCEPT
                          !.devices = <<>>,
                          !.cleared = TRUE,
                          !.knownAtClear = DeviceIds(deviceDiscovery.devices),
                          !.foundSince = {},
                          !.ownSince = {}])
    /\ UnchangedByDiscovery

\* if (device.ip === 'Unknown' || device.id === 'current') continue
Pinged(device) == ~(device.ip = "Unknown" \/ device.id = "current")

\* the 10 s interval callback of startPeriodicScan: quickConnectivityCheck
\* takes its snapshot of the map and pings the first device of it
QuickCheckTimer ==
    /\ TaskCanStart
    /\ LET knownDevices == SelectSeq(GetDevices(deviceDiscovery), Pinged)
       IN  /\ knownDevices # <<>>
           /\ deviceDiscovery' =
                 [deviceDiscovery EXCEPT !.checks = Append(@, knownDevices)]
    /\ UnchangedByDiscovery

\* quickConnectivityCheck c after `await this.probePing(device.ip)`: the
\* entry of the snapshot is written back with its new status, and the next
\* device is pinged or the listeners are notified
QuickCheckProbeCompletes(c, result) ==
    /\ NoJobRunning
    /\ c \in DOMAIN deviceDiscovery.checks
    /\ LET device == Head(deviceDiscovery.checks[c])
           updatedDevice == [device EXCEPT
                                !.status = IF result THEN "responding" ELSE "offline"]
           rest == Tail(deviceDiscovery.checks[c])
           written == [deviceDiscovery EXCEPT
                          !.devices = DevicesSet(@, updatedDevice),
                          !.checks = IF rest = <<>> THEN Splice(@, c)
                                     ELSE [@ EXCEPT ![c] = rest]]
       IN  deviceDiscovery' = FoundResponding(written, device.id, result)
    /\ UnchangedByDiscovery

InitMonitor ==
    /\ feedbackLog = <<>>
    /\ now = Uptime
    /\ events = <<>>
    /\ failedAttempts = EmptyMap
    /\ requestCounts = EmptyMap
    /\ listeners = <<>>
    /\ networkMetrics = InitialMetrics(0)
    /\ microtasks = <<>>
    /\ dispatch = Idle
    /\ closures = {}
    /\ rapidClicks = 0
    /\ pageChanges = 0
    /\ published = <<>>
    /\ delivered = <<>>
    /\ lastCall = NoCall
    /\ pingResults = NoPingResults
    /\ realTimeMonitor = NewRealTimeMonitor
    /\ deviceDiscovery = NewDeviceDiscovery
    /\ handles = <<>>

InitBase ==
    /\ mlThreatDetection = NewEngine
    /\ InitMonitor

Init ==
    /\ InitBase
    /\ labelPattern = "none"

InitEngine ==
    /\ InitBase
    /\ labelPattern \in LabelPatterns

NextEngine == FeedEngine

SpecEngine == InitEngine /\ [][NextEngine]_vars

\* what the environment shows a createSecurityEvent call: a quiet browser,
\* and one under memory pressure whose vector the isolation forest flags
\* leaves of decision trees, by the labels of their training samples
PureNormal == [normal |-> 5, threat |-> 0]

PureThreat == [normal |-> 0, threat |-> 3]

MostlyNormal == [normal |-> 3, threat |-> 1]

MostlyThreat == [normal |-> 1, threat |-> 3]

Tied == [normal |-> 2, threat |-> 2]

\* the leaves a vector ends in, tree by tree: `first` in the first k trees
Leaves(k, first, rest) ==
    [i \in 1..NumTrees |-> IF i <= k THEN first ELSE rest]

Calm == [heap |-> 50, cpu |-> 20, score |-> 450,
         leaves |-> Leaves(NumTrees, PureNormal, PureNormal)]

Hot == [heap |-> 95, cpu |-> 29, score |-> 700,
        leaves |-> Leaves(NumTrees, PureThreat, PureThreat)]

\* createSecurityEvent calls so far for events of this type, severity and source
CreatedLike(type, severity, source) ==
    LET Like(e) == e.type = type /\ e.severity = severity /\ e.source = source
    IN  Cardinality({i \in 1..Len(published) : Like(published[i])})
        + Cardinality({i \in 1..Len(microtasks) : Like(microtasks[i].eventData)})

\* --- SpecRequests: one domain answering requests, some of them with 404 ---
Domain == "api.test"

ClientErrorsSoFar == MapGet(failedAttempts, Domain)

RequestsAnswer ==
    /\ MapGet(requestCounts, Domain) < MaxRequests
    /\ Len(microtasks) < MaxPending
    /\ \E status \in {200, 404} :
        /\ status = 404 => ClientErrorsSoFar < MaxClientErrors
        /\ FetchResolves(Domain, status, 120, Calm)

NextRequests ==
    \/ RequestsAnswer
    \/ ResumeCreateSecurityEvent
    \/ ProvideFeedback

SpecRequests == Init /\ [][NextRequests]_vars

\* --- SpecBuffer: enough failing requests to fill the event buffer, and a
\* --- memory alert among the events around the first eviction
BufferFetchFails ==
    /\ Created < MaxBufferEvents
    /\ Len(microtasks) < MaxPending
    /\ FetchRejects(Domain, Calm)

BufferMemoryTimer ==
    /\ Created < MaxBufferEvents
    /\ Created >= MaxEvents - 1
    /\ Len(microtasks) < MaxPending
    /\ CreatedLike("resource_abuse", "high", "localhost") < MaxMemoryAlerts
    /\ MemoryTimer(Hot)

NextBuffer ==
    \/ BufferFetchFails
    \/ BufferMemoryTimer
    \/ ResumeCreateSecurityEvent
    \/ ProvideFeedback

SpecBuffer == Init /\ [][NextBuffer]_vars

\* --- SpecPipeline: every kind of rule trigger, with subscribers that only
\* --- listen. The subscribers register at start-up; the user clicks, then
\* --- leaves pages, then the requests are answered; the memory timer fires
\* --- at any time.
CanTrigger ==
    /\ Created < MaxPipelineEvents
    /\ Len(microtasks) < MaxPending

NothingHappenedYet ==
    /\ Created = 0
    /\ networkMetrics = InitialMetrics(0)

PipelineSubscribe ==
    /\ NothingHappenedYet
    /\ \E callback \in 1..MaxPipelineCallbacks :
        /\ IndexOf(listeners, callback) = 0
        /\ OnSecurityEvent(callback)
        /\ UNCHANGED handles

PipelineClick ==
    /\ CanTrigger
    /\ networkMetrics.clickCount < MaxClicks
    /\ HandleClick(Calm)

PipelineBeforeUnload ==
    /\ CanTrigger
    /\ networkMetrics.clickCount = MaxClicks
    /\ networkMetrics.navigationCount < MaxPageChanges
    /\ networkMetrics.requestCount = 0
    /\ HandleBeforeUnload(Calm)

PipelineAnswer ==
    /\ CanTrigger
    /\ networkMetrics.navigationCount = MaxPageChanges
    /\ networkMetrics.requestCount < MaxPipelineRequests
    /\ \E responseTime \in {120, 12000} : FetchResolves(Domain, 404, responseTime, Calm)

PipelineMemoryTimer ==
    /\ CanTrigger
    /\ CreatedLike("resource_abuse", "high", "localhost") < MaxMemoryAlerts
    /\ MemoryTimer(Hot)

PipelineNotify == NotifyListener(Passive)

NextPipeline ==
    \/ PipelineSubscribe
    \/ PipelineClick
    \/ PipelineBeforeUnload
    \/ PipelineAnswer
    \/ PipelineMemoryTimer
    \/ ResumeCreateSecurityEvent
    \/ PipelineNotify
    \/ ProvideFeedback

SpecPipeline == Init /\ [][NextPipeline]_vars

\* --- SpecSubscribers: subscribers that come and go, also from inside
\* --- their own callbacks, while failing requests create events
Callbacks == 1..MaxCallbacks

Registered(callback) == IndexOf(listeners, callback) > 0

\* what a callback may do when it is called: nothing, call an unsubscribe
\* function some onSecurityEvent call returned, or subscribe a callback
Behaviours ==
    {Passive}
    \cup {[kind |-> "unsubscribe", target |-> c] : c \in Callbacks}
    \cup {[kind |-> "subscribe", target |-> c] : c \in Callbacks}

SubscribersFetchFails ==
    /\ Created < MaxSubscriberEvents
    /\ Len(microtasks) < MaxPending
    /\ FetchRejects(Domain, Calm)

SubscribersSubscribe ==
    \E callback \in Callbacks :
        /\ ~Registered(callback)
        /\ OnSecurityEvent(callback)
        /\ UNCHANGED handles

SubscribersUnsubscribe ==
    \E callback \in Callbacks :
        /\ Registered(callback)
        /\ CallUnsubscribe(callback)
        /\ UNCHANGED handles

SubscribersNotify ==
    \E behaviour \in Behaviours :
        /\ behaviour.kind = "subscribe" => ~Registered(behaviour.target)
        /\ behaviour.kind = "unsubscribe" => Registered(behaviour.target)
        /\ NotifyListener(behaviour)

NextSubscribers ==
    \/ SubscribersFetchFails
    \/ SubscribersSubscribe
    \/ SubscribersUnsubscribe
    \/ SubscribersNotify
    \/ ResumeCreateSecurityEvent
    \/ ProvideFeedback

SpecSubscribers == Init /\ [][NextSubscribers]_vars

\* SpecSnapshot: requests fail or are answered slowly while earlier events
\* wait at their await; the metrics are reset and the clock advances at any
\* point between two jobs.
SnapshotCanTrigger ==
    /\ Created < MaxSnapshotEvents
    /\ Len(microtasks) < MaxPending

SnapshotFetchFails ==
    /\ SnapshotCanTrigger
    /\ FetchRejects(Domain, Calm)

SnapshotSlowAnswer ==
    /\ SnapshotCanTrigger
    /\ FetchResolves(Domain, 200, 12000, Hot)

SnapshotResetMetrics ==
    /\ networkMetrics.requestCount + networkMetrics.failedRequests > 0
    /\ ResetMetrics

SnapshotTick ==
    /\ now < Uptime + MaxTicks * TickMs
    /\ Tick(TickMs)

NextSnapshot ==
    \/ SnapshotFetchFails
    \/ SnapshotSlowAnswer
    \/ SnapshotResetMetrics
    \/ SnapshotTick
    \/ ResumeCreateSecurityEvent
    \/ ProvideFeedback

SpecSnapshot == Init /\ [][NextSnapshot]_vars

\* SpecTraining: the engine is constructed and then fed and queried directly,
\* and any training run may throw.
TrainingOutcomes ==
    {NoFailure,
     [throws |-> "randomForest", built |-> 0],
     [throws |-> "randomForest", built |-> TreesBuiltBeforeThrow],
     [throws |-> "isolationForest", built |-> TreesBuiltBeforeThrow]}

QuietData == GetNetworkDataForML(InitialMetrics(0), Calm, Uptime)

InitTraining ==
    /\ \E outcome \in TrainingOutcomes : mlThreatDetection = ConstructEngine(outcome)
    /\ InitMonitor
    /\ labelPattern = "none"

\* detectThreats calls made directly so far
Detections == lastCall.n

TrainingFeedback ==
    /\ Len(feedbackLog) < MaxTrainingFeedback
    /\ LET k == Len(feedbackLog) + 1
           next == TrimTrainingData(AppendSample(mlThreatDetection.trainingData,
                                                 FedFeatures(k), FALSE))
       IN  \E outcome \in (IF ShouldRetrain(next) THEN TrainingOutcomes ELSE {NoFailure}) :
               CallRetrainWithFeedback(FedFeatures(k), FALSE, outcome)

TrainingDetect ==
    /\ Detections < MaxTrainingDetections
    /\ \E obs \in {Calm, Hot} : CallDetectThreats(QuietData, obs)

NextTraining ==
    \/ TrainingFeedback
    \/ TrainingDetect

SpecTraining == InitTraining /\ [][NextTraining]_vars

\* SpecScoring: a freshly constructed engine is queried directly with
\* snapshots, leaves and isolation scores drawn from small sets.
BusyMetrics ==
    [InitialMetrics(0) EXCEPT !.requestCount = 150, !.failedRequests = 12,
                              !.totalResponseTime = 300000, !.httpErrors = 12,
                              !.suspiciousPatterns = 6, !.clickCount = 30]

BusyData == GetNetworkDataForML(BusyMetrics, Hot, Uptime)

\* an object with one of the fields extractFeatures reads
SparseData == [requestCount |-> 120]

\* an object with the keys of a NetworkFeature and the values of a host under
\* attack; extractFeatures does not read the keys responseTime and
\* dataTransferred
ThreatScenario ==
    [requestCount |-> 250, failedRequests |-> 40, responseTime |-> 1800,
     dataTransferred |-> 4000, uniqueDomains |-> 45, httpErrors |-> 15,
     suspiciousPatterns |-> 8, memoryUsage |-> 85, cpuUsage |-> 90,
     clickRate |-> 35, navigationRate |-> 18]

NetworkDataInputs == {QuietData, BusyData, SparseData}

\* The isolation forest's score is 2^(-averagePathLength / c), in (0, 1].
AnomalyScores == {1, 300, 500, 599, 600, 601, 850, 1000}

LeafInputs ==
    {Leaves(NumTrees, PureNormal, PureNormal),
     Leaves(NumTrees, PureThreat, PureThreat),
     Leaves(NumTrees, MostlyThreat, MostlyThreat),
     Leaves(NumTrees, Tied, Tied),
     Leaves(NumTrees \div 2, PureThreat, PureNormal),
     Leaves(NumTrees \div 2 + 1, PureThreat, PureNormal),
     Leaves(NumTrees \div 2 + 1, MostlyThreat, MostlyNormal),
     Leaves(1, PureThreat, PureNormal)}

ScoringDetect ==
    /\ Detections < MaxScoringCalls
    /\ \E networkData \in NetworkDataInputs, leaves \in LeafInputs,
          score \in AnomalyScores :
            CallDetectThreats(networkData, [leaves |-> leaves, score |-> score])

\* detectThreats on the scenario, with every tree in a leaf of one label
ScoringScenario ==
    /\ Detections < MaxScoringCalls
    /\ \E leaf \in {PureNormal, PureThreat}, score \in {500, 1000} :
            CallDetectThreats(ThreatScenario,
                              [leaves |-> Leaves(NumTrees, leaf, leaf), score |-> score])

NextScoring ==
    \/ ScoringDetect
    \/ ScoringScenario

SpecScoring == Init /\ [][NextScoring]_vars

\* ------------------------------------------------------------------------
\* Claims about the engine's training set (checked under SpecEngine)
\* ------------------------------------------------------------------------
BootstrapSize == NormalPatternCount + ThreatPatternCount

\* samples that ever entered the training set
Arrivals == BootstrapSize + Len(feedbackLog)

\* the i-th sample that entered the training set, as it was when it entered
Stream(i) ==
    IF i <= BootstrapSize THEN InitialTrainingData[i]
    ELSE [features |-> <<i - BootstrapSize, 0, 0, 0, 0, 0, 0, 0, 0, 0, 0>>,
          label |-> IF PatternLabel(labelPattern, i - BootstrapSize) THEN 1 ELSE 0]

\* size after `total` arrivals: total up to the cap, then TrimTo plus the
\* arrivals since the last overflow
ExpectedSize(total) ==
    IF total <= MaxTrainingData THEN total
    ELSE TrimTo + ((total - MaxTrainingData - 1) % (MaxTrainingData - TrimTo + 1))

\* C2: after every retrainWithFeedback call the training set holds at most
\* 1000 samples; an overflow to 1001 leaves the 800 most recent ones; the
\* size is then 800 plus the later arrivals until the next overflow; the set
\* is always the most recent arrivals in arrival order, each sample as it
\* was appended.
C2_TrainingSetIsRecentWindow ==
    LET data == mlThreatDetection.trainingData
        n == Len(data)
    IN  /\ n <= MaxTrainingData
        /\ n = ExpectedSize(Arrivals)
        /\ \A i \in 1..n : data[i] = Stream(Arrivals - n + i)

\* an overflow has happened and one more sample has arrived since
C2_Witness ==
    /\ Arrivals = MaxTrainingData + 2
    /\ Len(mlThreatDetection.trainingData) = TrimTo + 1

\* C9: a retrainWithFeedback call rebuilds both forests if the training-set
\* size it leaves (after the append and the trim) is a multiple of 50, and
\* leaves both forests untouched otherwise.
C9_RetrainExactlyOnMultiples ==
    [][Len(feedbackLog') = Len(feedbackLog) + 1 =>
        LET before == mlThreatDetection
            after == mlThreatDetection'
        IN  IF Len(after.trainingData) % RetrainInterval = 0
            THEN /\ after.randomForest.generation = before.randomForest.generation + 1
                 /\ after.isolationForest.generation = before.isolationForest.generation + 1
                 /\ after.randomForest.samples = Len(after.trainingData)
                 /\ after.isolationForest.samples = Len(after.trainingData)
            ELSE /\ after.randomForest = before.randomForest
                 /\ after.isolationForest = before.isolationForest]_vars

\* the call that overflowed the set and trimmed it to 800 retrained
C9_Witness ==
    /\ Arrivals = MaxTrainingData + 1
    /\ Len(mlThreatDetection.trainingData) = TrimTo
    /\ feedbackLog[Len(feedbackLog)].retrained
    /\ mlThreatDetection.randomForest.samples = TrimTo

\* retrainings among the last n retrainWithFeedback calls
RetrainsInLast(n) ==
    Cardinality({k \in (Len(feedbackLog) - n + 1)..Len(feedbackLog) :
                    feedbackLog[k].retrained})

\* training-set size when the k-th retrainWithFeedback call started
SizeBeforeCall(k) ==
    IF k = 1 THEN BootstrapSize ELSE feedbackLog[k - 1].size

\* C10 as claimed: any 50 consecutive retrainWithFeedback calls, from any
\* reachable engine state, trigger exactly one retraining.
C10_ExactlyOneRetrainPer50 ==
    Len(feedbackLog) >= RetrainInterval => RetrainsInLast(RetrainInterval) = 1

\* C10 amended: 50 consecutive calls trigger exactly one retraining when
\* they start with at most 950 or with exactly 1000 samples in the training
\* set (a fresh engine has 250), and exactly two when they start with 951
\* to 999 samples: one on reaching 1000, one on the trim to 800.
C10_RetrainsPer50 ==
    Len(feedbackLog) >= RetrainInterval =>
        LET s == SizeBeforeCall(Len(feedbackLog) - RetrainInterval + 1)
        IN  RetrainsInLast(RetrainInterval) =
                IF s > MaxTrainingData - RetrainInterval /\ s < MaxTrainingData
                THEN 2 ELSE 1

\* the first 50 feedback calls of a fresh engine retrained once
C10_Witness ==
    /\ Len(feedbackLog) = RetrainInterval
    /\ RetrainsInLast(RetrainInterval) = 1
    /\ mlThreatDetection.randomForest.generation = 2

\* ------------------------------------------------------------------------
\* Claims about the event buffer (checked under SpecBuffer)
\* ------------------------------------------------------------------------
\* C1: the event buffer never holds more than 100 events; it always equals
\* the most recent (at most 100) published events, in creation order, the
\* oldest being evicted when a 101st is appended.
C1_BufferIsLast100 ==
    /\ Len(events) <= MaxEvents
    /\ events = SliceLast(published, MaxEvents)
    /\ \A i \in 1..Len(events) : events[i].id = Len(published) - Len(events) + i

\* two events have been evicted, the third created is now the oldest held
C1_Witness ==
    /\ Len(published) = MaxEvents + 2
    /\ Len(events) = MaxEvents
    /\ events[1].id = 3
    /\ events[MaxEvents].id = MaxEvents + 2

\* ------------------------------------------------------------------------
\* Claims about the request thresholds (checked under SpecRequests)
\* ------------------------------------------------------------------------
VolumeEvents == CreatedLike("resource_abuse", "medium", Domain)

FailedAuthEvents == CreatedLike("failed_auth", "high", Domain)

\* C7 as claimed: the resource_abuse/medium event for a domain fires at the
\* 101st request to it and not earlier, so after 101 requests exactly one
\* such event has been created.
C7_VolumeEventAt101stRequest ==
    /\ MapGet(requestCounts, Domain) <= RequestVolumeLimit => VolumeEvents = 0
    /\ MapGet(requestCounts, Domain) = RequestVolumeLimit + 1 => VolumeEvents = 1

\* what the code does: the first such event comes with the 102nd request
C7_Witness ==
    /\ MapGet(requestCounts, Domain) = RequestVolumeLimit + 2
    /\ VolumeEvents = 1

\* C8 as claimed: the first failed_auth/high event of a domain accompanies
\* its 6th 4xx response.
C8_FailedAuthAt6thClientError ==
    /\ ClientErrorsSoFar <= FailedAttemptLimit => FailedAuthEvents = 0
    /\ ClientErrorsSoFar = FailedAttemptLimit + 1 => FailedAuthEvents = 1

\* what the code does: the first such event comes with the 7th 4xx response
C8_Witness ==
    /\ ClientErrorsSoFar = FailedAttemptLimit + 2
    /\ FailedAuthEvents = 1

\* ------------------------------------------------------------------------
\* Claims about the order of the pipeline (checked under SpecPipeline)
\* ------------------------------------------------------------------------
Last(s) == s[Len(s)]

\* C3: events are appended to the buffer and delivered to the subscribers
\* in exactly the order in which their rules fired (an event's id is the
\* ordinal of its createSecurityEvent call), whatever triggers run while
\* earlier createSecurityEvent calls are suspended at the scoring await.
C3_TriggerOrderKept ==
    /\ \A i \in 1..Len(published) : published[i].id = i
    /\ \A i \in 1..Len(events) : events[i].id = Len(published) - Len(events) + i
    /\ \A i \in 1..Len(microtasks) : microtasks[i].id = Len(published) + i
    /\ \A i, j \in 1..Len(delivered) :
        i < j => /\ delivered[i].event <= delivered[j].event
                 /\ delivered[i].callback = delivered[j].callback
                        => delivered[i].event < delivered[j].event

\* one analyzeRequest call fired two rules: its failed_auth event is being
\* delivered, one of two subscribers has it, and its unusual_activity event
\* is still suspended
C3_Witness ==
    /\ dispatch.pc = "notify"
    /\ dispatch.task.eventData.type = "failed_auth"
    /\ microtasks # <<>>
    /\ microtasks[1].eventData.type = "unusual_activity"
    /\ microtasks[1].networkData.requestCount = dispatch.task.networkData.requestCount
    /\ Len(listeners) = 2
    /\ dispatch.index = 1
    /\ Last(delivered).event = dispatch.task.id
    /\ Len(published) >= 3

DeliveriesOf(id) == {i \in 1..Len(delivered) : delivered[i].event = id}

CalledWith(log, id) ==
    LET calls == SelectSeq(log, LAMBDA call : call.event = id)
    IN  [i \in 1..Len(calls) |-> calls[i].callback]

Elements(s) == {s[i] : i \in 1..Len(s)}

\* the elements of `part` appear in `whole` in the same order
InOrderOf(part, whole) ==
    \A i, j \in 1..Len(part) :
        i < j => /\ IndexOf(whole, part[i]) > 0
                 /\ IndexOf(whole, part[i]) < IndexOf(whole, part[j])

DispatchDone == dispatch.pc = "notify" /\ dispatch.index = dispatch.len

\* C5 as claimed: the callbacks called with an event are callbacks that were
\* registered when it was published, called in registration order (no
\* replay to a later subscriber), and when the dispatch ends every callback
\* that was registered at the publication, and still is, has been called
\* with the event.
C5_AudienceReceivesEvent ==
    dispatch.pc = "notify" =>
        LET got == CalledWith(delivered, dispatch.task.id)
        IN  /\ Elements(got) \subseteq Elements(dispatch.audience)
            /\ InOrderOf(got, dispatch.audience)
            /\ DispatchDone =>
                  \A c \in Elements(dispatch.audience) :
                      Registered(c) => c \in Elements(got)

\* no replay: a callback that subscribed while the event was being
\* dispatched is registered at the end of the dispatch and was not called
C5_Witness ==
    /\ DispatchDone
    /\ Len(dispatch.audience) = 2
    /\ CalledWith(delivered, dispatch.task.id) = dispatch.audience
    /\ \E c \in Callbacks :
        /\ Registered(c)
        /\ c \notin Elements(dispatch.audience)

\* the callbacks the running forEach will still call, given the index it
\* has reached and the length it read at its start
Remaining(registered, index, len) ==
    SubSeq(registered, index + 1, IF len < Len(registered) THEN len ELSE Len(registered))

Without(s, callback) == SelectSeq(s, LAMBDA x : x # callback)

\* C6 as claimed: when a callback is unsubscribed, from outside or from
\* inside a callback of the running dispatch, it receives nothing from then
\* on, the event buffer is unchanged, and the other callbacks the running
\* dispatch was going to call are still going to be called.
C6_UnsubscribeLeavesOthersAlone ==
    [][\A c \in Callbacks :
        (Registered(c) /\ IndexOf(listeners', c) = 0) =>
            /\ events' = events
            /\ Remaining(listeners', dispatch'.index, dispatch'.len)
                 = Without(Remaining(listeners, dispatch'.index, dispatch'.len), c)]_vars

\* a callback unsubscribed itself while it was called; the dispatch ended
\* without calling a callback that was registered throughout
C6_Witness ==
    /\ DispatchDone
    /\ \E c \in Elements(dispatch.audience) :
        /\ ~Registered(c)
        /\ c \in Elements(CalledWith(delivered, dispatch.task.id))
    /\ \E c \in Elements(dispatch.audience) :
        /\ Registered(c)
        /\ c \notin Elements(CalledWith(delivered, dispatch.task.id))

\* ------------------------------------------------------------------------
\* Claims about failed training runs (checked under SpecTraining)
\* ------------------------------------------------------------------------
\* the last training run threw: it left one of the forests short of trees
TrainingFailed(ml) ==
    \/ ml.randomForest.trees < NumTrees
    \/ ml.isolationForest.trees < NumTrees

DetectThreatsReturned ==
    /\ lastCall'.op = "detectThreats"
    /\ lastCall'.n = lastCall.n + 1

\* C11: once a training run has thrown, during construction or during a
\* retraining started by feedback, every detectThreats call returns the
\* neutral prediction of the untrained engine until a training run succeeds.
C11_FailedTrainingDegradesToNeutral ==
    [][DetectThreatsReturned /\ TrainingFailed(mlThreatDetection) =>
          lastCall'.prediction = NeutralPrediction]_vars

\* a retraining started by feedback has thrown after a construction that
\* succeeded, and detectThreats has been called since
C11_Witness ==
    /\ TrainingFailed(mlThreatDetection)
    /\ Len(mlThreatDetection.trainingData) > BootstrapSize
    /\ lastCall.op = "detectThreats"
    /\ lastCall.scoredByForests

\* C13: while the trained flag is false, detectThreats returns isAnomaly
\* false, threatScore 0, confidence 0, riskLevel low and no contributing
\* features, and leaves the training set and the feature history as they were.
C13_UntrainedIsNeutral ==
    [][DetectThreatsReturned /\ ~mlThreatDetection.modelTrained =>
          /\ lastCall'.prediction.isAnomaly = FALSE
          /\ lastCall'.prediction.threatScore = 0
          /\ lastCall'.prediction.confidence = 0
          /\ lastCall'.prediction.riskLevel = "low"
          /\ lastCall'.prediction.features = <<>>
          /\ mlThreatDetection'.trainingData = mlThreatDetection.trainingData
          /\ mlThreatDetection'.featureHistory = mlThreatDetection.featureHistory]_vars

\* detectThreats has been called on an engine whose construction-time
\* training threw, after feedback calls that did not retrain it
C13_Witness ==
    /\ ~mlThreatDetection.modelTrained
    /\ lastCall.op = "detectThreats"
    /\ ~lastCall.scoredByForests
    /\ Len(feedbackLog) > 0

\* ------------------------------------------------------------------------
\* Claims about scoring (checked under SpecScoring)
\* ------------------------------------------------------------------------
\* C14: right after construction the trained flag is true and the training
\* set is 200 samples labelled 0 followed by 50 samples labelled 1, so the
\* first detectThreats call is scored by the two forests.
C14_ConstructedEngineIsTrained ==
    /\ Detections = 0 =>
          /\ mlThreatDetection.modelTrained
          /\ mlThreatDetection.randomForest.trees = 50
          /\ mlThreatDetection.isolationForest.trees = 50
          /\ Len(mlThreatDetection.trainingData) = 250
          /\ \A i \in 1..Len(mlThreatDetection.trainingData) :
                mlThreatDetection.trainingData[i].label = (IF i <= 200 THEN 0 ELSE 1)
    /\ Detections = 1 =>
          /\ lastCall.scoredByForests
          /\ Len(mlThreatDetection.featureHistory) = 1

\* the first detectThreats call on a new engine has returned a prediction
\* with a positive threat score
C14_Witness ==
    /\ Detections = 1
    /\ lastCall.prediction.threatScore > 0
    /\ Len(mlThreatDetection.trainingData) = 250

\* ------------------------------------------------------------------------
\* Claims about the snapshot of the metrics (checked under SpecSnapshot)
\* ------------------------------------------------------------------------
\* the sample the feedback of the running createSecurityEvent call appended
FeedbackSample == mlThreatDetection'.trainingData[Len(mlThreatDetection'.trainingData)]

\* C15: the vector appended to the training set for an event is, value for
\* value, the 11-slot vector detectThreats scored for that event, whatever
\* happened to the metrics between the trigger and the feedback.
C15_FeedbackUsesScoredVector ==
    [][Len(feedbackLog') = Len(feedbackLog) + 1 =>
          /\ Len(FeedbackSample.features) = 11
          /\ FeedbackSample.features =
                FeatureVector(mlThreatDetection.featureHistory[dispatch.task.id])]_vars

\* the feedback for the first event has been given after the metrics it was
\* triggered under were reset and the clock moved
C15_Witness ==
    /\ Len(feedbackLog) = 1
    /\ dispatch = Idle
    /\ Created > 1
    /\ now > Uptime
    /\ networkMetrics.failedRequests = 0
    /\ mlThreatDetection.trainingData[Len(mlThreatDetection.trainingData)].features[2] = 1

\* ------------------------------------------------------------------------
\* Claims about retraining between events (checked under SpecBuffer)
\* ------------------------------------------------------------------------
\* C16: whenever a job can start, and so whenever detectThreats or
\* trainModels can be called, no training run is in progress and both forests
\* hold their configured number of trees: no prediction is computed against
\* a forest in the middle of a rebuild and trainModels is never entered while
\* another run is in progress.
C16_NoJobMeetsARebuild ==
    /\ ~mlThreatDetection.isTraining
    /\ mlThreatDetection.randomForest.trees = 50
    /\ mlThreatDetection.isolationForest.trees = 50
    /\ mlThreatDetection.randomForest.generation =
          mlThreatDetection.isolationForest.generation

\* the feedback of the 50th event has retrained the forests while later
\* events waited at their await, and an event has been scored since
C16_Witness ==
    /\ mlThreatDetection.randomForest.generation = 2
    /\ Len(mlThreatDetection.featureHistory) > RetrainInterval + MaxPending
    /\ Len(microtasks) = MaxPending

\* a detectThreats call has returned a prediction computed by the forests
Scored ==
    /\ lastCall.op = "detectThreats"
    /\ lastCall.scoredByForests

\* the level the specification gives a threat score (in ten-thousandths)
ExpectedRiskLevel(threatScore) ==
    CASE threatScore > 8000 -> "critical"
      [] threatScore > 6000 /\ threatScore <= 8000 -> "high"
      [] threatScore > 4000 /\ threatScore <= 6000 -> "medium"
      [] OTHER -> "low"

\* C17: for a trained engine threatScore = 0.6 * rf.prediction + 0.4 *
\* if.anomalyScore, and riskLevel is critical above 0.8, high above 0.6,
\* medium above 0.4 and low otherwise, a score equal to a threshold taking
\* the lower level. The last conjunct walks the ladder of detectThreats over
\* every score from 0 to 1, including those no call produces.
C17_ThreatScoreAndRiskLevel ==
    /\ Scored =>
          /\ lastCall.prediction.threatScore =
                6000 * lastCall.rfResult.prediction + 4 * lastCall.anomalyScore
          /\ lastCall.prediction.riskLevel =
                ExpectedRiskLevel(lastCall.prediction.threatScore)
          /\ \A threatScore \in 0..10000 :
                RiskLevel(threatScore) = ExpectedRiskLevel(threatScore)

\* a call has scored exactly 0.4 and was given the level low
C17_Witness ==
    /\ Scored
    /\ lastCall.prediction.threatScore = 4000
    /\ lastCall.prediction.riskLevel = "low"

\* C18: every prediction has threatScore and confidence in [0, 1],
\* confidence = (rf.confidence + (1 if anomalyScore > 0.6 else 0)) / 2, and
\* isAnomaly exactly when rf.prediction = 1 or anomalyScore > 0.6.
C18_PredictionRanges ==
    lastCall.op = "detectThreats" =>
        /\ lastCall.prediction.threatScore >= 0
        /\ lastCall.prediction.threatScore <= 10000
        /\ lastCall.prediction.confidence >= 0
        /\ lastCall.prediction.confidence <= 1000
        /\ lastCall.scoredByForests =>
              /\ 2 * lastCall.prediction.confidence =
                    lastCall.rfResult.confidence
                    + (IF lastCall.anomalyScore > 600 THEN 1000 ELSE 0)
              /\ lastCall.prediction.isAnomaly <=>
                    (lastCall.rfResult.prediction = 1 \/ lastCall.anomalyScore > 600)

\* a call with an isolation score of exactly 0.6 has returned: not an
\* anomaly, confidence one half
C18_Witness ==
    /\ Scored
    /\ lastCall.anomalyScore = 600
    /\ ~lastCall.prediction.isAnomaly
    /\ lastCall.prediction.confidence = 500

\* the trees whose DecisionTree.predict returned label 1 in the last call
LabelOneTrees ==
    {i \in 1..mlThreatDetection.randomForest.trees :
        TreePredictions(mlThreatDetection.randomForest, lastCall.leaves)[i].label = 1}

\* C19: RandomForest.predict returns 1 exactly when strictly more than half
\* of its trees return label 1, and 0 otherwise, a tie included.
C19_MajorityOfTreesDecides ==
    Scored =>
        (lastCall.rfResult.prediction =
            IF 2 * Cardinality(LabelOneTrees) > NumTrees THEN 1 ELSE 0)

\* every tree has returned label 1 and the forest has returned 0
C19_Witness ==
    /\ Scored
    /\ Cardinality(LabelOneTrees) = NumTrees
    /\ lastCall.rfResult.prediction = 0

\* C20: the confidence of RandomForest.predict is in [0, 1], is 1 exactly
\* when all trees return the same label, and is 0 when the trees split
\* exactly in half.
C20_ConfidenceFromAgreement ==
    Scored =>
        /\ lastCall.rfResult.confidence >= 0
        /\ lastCall.rfResult.confidence <= 1000
        /\ lastCall.rfResult.confidence = 1000 <=>
              Cardinality(LabelOneTrees) \in {0, NumTrees}
        /\ 2 * Cardinality(LabelOneTrees) = NumTrees =>
              lastCall.rfResult.confidence = 0

\* the trees have split 25 to 25 and the forest has reported confidence 1
C20_Witness ==
    /\ Scored
    /\ 2 * Cardinality(LabelOneTrees) = NumTrees
    /\ lastCall.rfResult.confidence = 1000

\* ------------------------------------------------------------------------
\* Claims about failing requests (checked under SpecBuffer)
\* ------------------------------------------------------------------------
\* a call of the instrumented fetch whose underlying fetch rejected has ended
FetchRejected ==
    /\ lastCall'.op = "fetch"
    /\ lastCall'.n = lastCall.n + 1
    /\ lastCall'.originalFetch = "rejects"

\* C12: a request that fails at the transport level creates exactly one
\* suspicious_request event of severity medium, and the caller of fetch does
\* not get the failure as an exception.
C12_FetchFailureRecordedNotThrown ==
    [][FetchRejected =>
          /\ Created' = Created + 1
          /\ LET task == microtasks'[Len(microtasks')]
             IN  /\ task.eventData.type = "suspicious_request"
                 /\ task.eventData.severity = "medium"
          /\ lastCall'.outcome # "throws"]_vars

\* C12 (amended): a request that fails at the transport level creates exactly
\* one suspicious_request event of severity medium, and the failure is then
\* rethrown to the caller of fetch.
C12_FetchFailureRecordedAndRethrown ==
    [][FetchRejected =>
          /\ Created' = Created + 1
          /\ LET task == microtasks'[Len(microtasks')]
             IN  /\ task.eventData.type = "suspicious_request"
                 /\ task.eventData.severity = "medium"
          /\ lastCall'.outcome = "throws"]_vars

\* a failing request has been recorded as its one event and rethrown
C12_Witness ==
    /\ lastCall.op = "fetch"
    /\ lastCall.originalFetch = "rejects"
    /\ lastCall.outcome = "throws"
    /\ lastCall.n = 1
    /\ CreatedLike("suspicious_request", "medium", Domain) = 1

\* ------------------------------------------------------------------------
\* SpecTree: one DecisionTree trained on a small training set and asked for
\* the class of one vector
\* ------------------------------------------------------------------------
\* samples of a training set
MaxTreeSamples == 3

FeatureValues == {1, 2}

FeatureVectors == {<<a, b>> : a \in FeatureValues, b \in FeatureValues}

TreeSamples == {[features |-> f, label |-> l] : f \in FeatureVectors, l \in {0, 1}}

TrainingSets ==
    UNION {[1..n -> TreeSamples] : n \in 1..MaxTreeSamples}

\* tree = new DecisionTree(); tree.train(data)
TreeTrains(data) ==
    /\ lastCall = NoCall
    /\ lastCall' = [op |-> "DecisionTree.train", n |-> 1, data |-> data,
                    tree |-> DecisionTreeTrain(data, MaxDepth)]
    /\ UNCHANGED <<mlThreatDetection, feedbackLog, labelPattern, now>>
    /\ UNCHANGED monitorVars
    /\ UNCHANGED serviceVars
    /\ UNCHANGED handles

\* tree.predict(features) on the trained tree
TreePredicts(features) ==
    /\ lastCall.op \in {"DecisionTree.train", "DecisionTree.predict"}
    /\ lastCall' = [op |-> "DecisionTree.predict", n |-> 1,
                    data |-> lastCall.data, tree |-> lastCall.tree,
                    features |-> features,
                    returned |-> DecisionTreePredict(lastCall.tree, features)]
    /\ UNCHANGED <<mlThreatDetection, feedbackLog, labelPattern, now>>
    /\ UNCHANGED monitorVars
    /\ UNCHANGED serviceVars
    /\ UNCHANGED handles

TreeTrain == \E data \in TrainingSets : TreeTrains(data)

TreePredict == \E features \in FeatureVectors : TreePredicts(features)

NextTree == TreeTrain \/ TreePredict

SpecTree == Init /\ [][NextTree]_vars

TreePredicted == lastCall.op = "DecisionTree.predict"

\* the training samples that reached the leaf predict ends in
RECURSIVE LeafSamples(_, _, _)
LeafSamples(data, maxDepth, features) ==
    IF maxDepth = 0 \/ Len(data) < MinSamples \/ IsPure(data) THEN data
    ELSE LET bestSplit == FindBestSplit(data)
         IN  IF bestSplit = NoSplit THEN data
             ELSE LET parts == SplitData(data, bestSplit.featureIndex,
                                         bestSplit.threshold)
                  IN  IF 2 * features[bestSplit.featureIndex] <= bestSplit.threshold
                      THEN LeafSamples(parts.left, maxDepth - 1, features)
                      ELSE LeafSamples(parts.right, maxDepth - 1, features)

\* C21: a tree trained on a non-empty training set whose samples all carry
\* the label L returns L, as a number of {0, 1}, from predict for every
\* vector.
C21_PureTreeReturnsTheLabel ==
    (TreePredicted /\ IsPure(lastCall.data)) =>
        lastCall.returned = [type |-> "number", label |-> lastCall.data[1].label]

\* three samples of label 1, and predict hands back the entry ["1", 3]
C21_Witness ==
    /\ TreePredicted
    /\ Len(lastCall.data) = MaxTreeSamples
    /\ \A i \in DOMAIN lastCall.data : lastCall.data[i].label = 1
    /\ lastCall.returned = [type |-> "entry", label |-> 1]

\* the samples of the leaf the last predict ended in hold both labels
\* equally often
TiedLeaf ==
    /\ TreePredicted
    /\ LET counts == LabelCounts(LeafSamples(lastCall.data, MaxDepth,
                                             lastCall.features))
       IN  counts.normal = counts.threat

\* C24 as stated: on a leaf with equally many samples of label 0 and of
\* label 1 the prediction is the label whose key comes first in the
\* traversal of the label counts, which is the key "0".
C24_TieGoesToFirstKey ==
    TiedLeaf => lastCall.returned.label = 0

\* C24, amended: on a leaf with equally many samples of label 0 and of
\* label 1 the prediction is the key that comes last in the traversal of the
\* label counts, the key "1", whatever the order of the samples.
C24_TieGoesToLastKey ==
    TiedLeaf => lastCall.returned = [type |-> "string", label |-> 1]

\* a tied leaf below a split: two samples with the same features and
\* different labels, and a third sample the split sends the other way
C24_Witness ==
    /\ TiedLeaf
    /\ ~lastCall.tree.isLeaf
    /\ Len(lastCall.data) = MaxTreeSamples
    /\ lastCall.returned.label = 1

\* C22: on a trained engine, detectThreats on the metrics of a host under
\* attack (250 requests, 40 failed, 15 HTTP errors, 8 suspicious patterns,
\* memory 85, cpu 90, click rate 35, ...) returns isAnomaly = true and a
\* riskLevel of high or critical.
C22_ThreatScenarioIsFlagged ==
    (Scored /\ lastCall.networkData = ThreatScenario) =>
        /\ lastCall.prediction.isAnomaly
        /\ lastCall.prediction.riskLevel \in {"high", "critical"}

\* every tree ends in a leaf of label-1 samples and the isolation forest
\* gives its highest score, and the scenario is still rated low
C22_Witness ==
    /\ Scored
    /\ lastCall.networkData = ThreatScenario
    /\ \A i \in DOMAIN lastCall.leaves : lastCall.leaves[i] = PureThreat
    /\ lastCall.anomalyScore = 1000
    /\ lastCall.rfResult.prediction = 0
    /\ lastCall.prediction.riskLevel = "low"

\* what C26 says of one prediction: the level is high or critical exactly
\* when the random forest predicted 1, critical exactly when the anomaly
\* score is above 0.5 as well, low when the forest predicted 0, never medium,
\* and a high or critical prediction is an anomaly
RiskFollowsTheForest(rfResult, anomalyScore, prediction) ==
    /\ prediction.riskLevel \in {"high", "critical"} <=> rfResult.prediction = 1
    /\ prediction.riskLevel = "critical" <=>
          (rfResult.prediction = 1 /\ anomalyScore > 500)
    /\ rfResult.prediction = 0 => prediction.riskLevel = "low"
    /\ prediction.riskLevel # "medium"
    /\ prediction.riskLevel \in {"high", "critical"} => prediction.isAnomaly

\* C26: on a trained engine riskLevel is high or critical exactly when the
\* random forest's prediction is 1 (critical exactly when the anomaly score
\* is above 0.5), low whenever it is 0 and never medium, and every high or
\* critical prediction has isAnomaly true. The second conjunct puts the
\* ensemble step through both forest predictions and every anomaly score
\* from 0.001 to 1.
C26_RiskLevelFollowsTheForest ==
    Scored =>
        /\ RiskFollowsTheForest(lastCall.rfResult, lastCall.anomalyScore,
                                lastCall.prediction)
        /\ \A p \in {0, 1}, anomalyScore \in 1..1000 :
              LET rfResult == [prediction |-> p, confidence |-> 1000]
              IN  RiskFollowsTheForest(rfResult, anomalyScore,
                      EnsemblePrediction(rfResult,
                          IsolationForestPredict(anomalyScore),
                          ExtractFeatures(lastCall.networkData, now)))

\* the forest predicts 0 and the isolation forest gives the highest score:
\* the threat score is 0.4, an anomaly of level low
C26_Witness ==
    /\ Scored
    /\ lastCall.rfResult.prediction = 0
    /\ lastCall.anomalyScore = 1000
    /\ lastCall.prediction.isAnomaly
    /\ lastCall.prediction.riskLevel = "low"
    /\ lastCall.networkData = BusyData

\* ------------------------------------------------------------------------
\* SpecHistory: detectThreats and getModelStats called directly while time
\* passes
\* ------------------------------------------------------------------------
\* calls made, steps of time, and the length of a step in ms
MaxHistoryCalls == 4

MaxHistoryTicks == 3

HistoryTickMs == 150000

HistoryDetect ==
    /\ lastCall.n < MaxHistoryCalls
    /\ \E obs \in {Calm, Hot} : CallDetectThreats(QuietData, obs)

HistoryStats ==
    /\ lastCall.n < MaxHistoryCalls
    /\ CallGetModelStats

HistoryTick ==
    /\ now < Uptime + MaxHistoryTicks * HistoryTickMs
    /\ Tick(HistoryTickMs)

NextHistory ==
    \/ HistoryDetect
    \/ HistoryStats
    \/ HistoryTick

SpecHistory == Init /\ [][NextHistory]_vars

\* C23: a read of the feature history sees no entry older than 5 minutes,
\* however long ago the last detectThreats call was: the featureHistorySize
\* that getModelStats reports is the number of entries pushed in the 5
\* minutes before the call.
C23_ReadsSeeNoStaleEntry ==
    lastCall.op = "getModelStats" =>
        lastCall.stats.featureHistorySize =
            Len(RecentHistory(mlThreatDetection.featureHistory, lastCall.at))

\* getModelStats reports two entries, both pushed 5 minutes or more before
\* the call
C23_Witness ==
    /\ lastCall.op = "getModelStats"
    /\ lastCall.stats.featureHistorySize = 2
    /\ RecentHistory(mlThreatDetection.featureHistory, lastCall.at) = <<>>

\* ------------------------------------------------------------------------
\* SpecPing: pings of one host, some of which fail
\* ------------------------------------------------------------------------
\* pings of the host, and how many of them fail
MaxPings == 52

MaxFailedPings == 1

PingedHost == "example.com"

FailedPings ==
    LET history == GetPingHistory(pingResults, PingedHost)
    IN  Cardinality({i \in DOMAIN history : ~history[i].success})

LastPing ==
    LET history == GetPingHistory(pingResults, PingedHost)
    IN  IF history = <<>> THEN 0 ELSE history[Len(history)].n

PingSucceeds ==
    /\ LastPing < MaxPings
    /\ PingHostResolves(PingedHost)

PingFails ==
    /\ LastPing < MaxPings
    /\ FailedPings < MaxFailedPings
    /\ PingHostRejects(PingedHost)

NextPing ==
    \/ PingSucceeds
    \/ PingFails

SpecPing == Init /\ [][NextPing]_vars

\* C25: after any sequence of pingHost calls, successful or failed, the
\* history of a host holds at most 50 results, and they are the most recent
\* ones in the order they completed.
C25_HistoryKeepsLast50 ==
    \A host \in DOMAIN pingResults :
        LET history == GetPingHistory(pingResults, host)
        IN  /\ Len(history) <= PingHistoryLimit
            /\ \A i \in DOMAIN history :
                  history[i].n = history[Len(history)].n - Len(history) + i

\* 50 pings that succeeded and then one that failed: 51 results are kept
C25_Witness ==
    LET history == GetPingHistory(pingResults, PingedHost)
    IN  /\ Len(history) = PingHistoryLimit + 1
        /\ ~history[Len(history)].success
        /\ \A i \in 1..PingHistoryLimit : history[i].success

\* ------------------------------------------------------------------------
\* SpecMonitoring: components start and stop the RealTimeMonitor while the
\* page loads resources
\* ------------------------------------------------------------------------
\* start calls, interval callbacks, resources loaded
MaxStarts == 3

MaxBroadcasts == 5

MaxTransfers == 2

TransferHost == "cdn.example.com"

TransferSizes == {LargeTransferBytes, LargeTransferBytes + 1}

MonitoringStart ==
    /\ realTimeMonitor.timers < MaxStarts
    /\ RealTimeMonitorStart

MonitoringStop ==
    /\ realTimeMonitor.isRunning
    /\ RealTimeMonitorStop

MonitoringInterval ==
    /\ realTimeMonitor.broadcasts < MaxBroadcasts
    /\ \E id \in realTimeMonitor.intervals : IntervalFires(id)

MonitoringResource ==
    /\ realTimeMonitor.isRunning
    /\ realTimeMonitor.largeTransfers < MaxTransfers
    /\ \E transferSize \in TransferSizes : ResourceLoaded(transferSize)

MonitoringObserver == ObserverCallback(TransferHost, Calm)

NextMonitoring ==
    \/ MonitoringStart
    \/ MonitoringStop
    \/ MonitoringInterval
    \/ MonitoringResource
    \/ MonitoringObserver
    \/ ResumeCreateSecurityEvent
    \/ ProvideFeedback

SpecMonitoring == Init /\ [][NextMonitoring]_vars

\* C29: after any sequence of start and stop calls at most one polling
\* interval and at most one data-transfer observer are active, so that the
\* resources of more than 10MB loaded while the monitor runs have produced
\* one unusual_activity/medium event each once the observers have run.
C29_OneIntervalOneObserver ==
    /\ Cardinality(realTimeMonitor.intervals) <= 1
    /\ realTimeMonitor.observers <= 1
    /\ realTimeMonitor.pending = <<>> =>
          CreatedLike("unusual_activity", "medium", TransferHost)
              = realTimeMonitor.largeTransfers

\* start, stop, start, then one resource of more than 10MB: two observers
\* have reported it and two events were created, under one interval
C29_Witness ==
    /\ realTimeMonitor.observers = 2
    /\ Cardinality(realTimeMonitor.intervals) = 1
    /\ realTimeMonitor.largeTransfers = 1
    /\ realTimeMonitor.pending = <<>>
    /\ CreatedLike("unusual_activity", "medium", TransferHost) = 2

\* ------------------------------------------------------------------------
\* SpecSeverity: every rule of the monitor creates its event, one rule after
\* the other, and each event is published and fed back before the next
\* trigger
\* ------------------------------------------------------------------------
RequestsMade == MapGet(requestCounts, Domain)

RequestsDone == RequestsMade = MaxRequests

\* the first MaxClientErrors requests are answered 404, the next one takes
\* 12 s, the others are answered 200 at once
SeverityRequest ==
    /\ RequestsMade < MaxRequests
    /\ microtasks = <<>>
    /\ LET status == IF RequestsMade < MaxClientErrors THEN 404 ELSE 200
           responseTime == IF RequestsMade = MaxClientErrors THEN 12000 ELSE 100
       IN  \E obs \in {Calm, Hot} : FetchResolves(Domain, status, responseTime, obs)

SeverityFetchFails ==
    /\ RequestsDone
    /\ microtasks = <<>>
    /\ CreatedLike("suspicious_request", "medium", Domain) = 0
    /\ FetchRejects(Domain, Calm)

SeverityClick ==
    /\ RequestsDone
    /\ rapidClicks < MaxClicks
    /\ HandleClick(Calm)

SeverityPageChange ==
    /\ rapidClicks = MaxClicks
    /\ pageChanges < MaxPageChanges
    /\ HandleBeforeUnload(Calm)

SeverityMemory ==
    /\ pageChanges = MaxPageChanges
    /\ CreatedLike("resource_abuse", "high", "localhost") = 0
    /\ MemoryTimer(Hot)

SeverityStart ==
    /\ pageChanges = MaxPageChanges
    /\ ~realTimeMonitor.isRunning
    /\ RealTimeMonitorStart

SeverityResource ==
    /\ realTimeMonitor.isRunning
    /\ realTimeMonitor.largeTransfers = 0
    /\ ResourceLoaded(LargeTransferBytes + 1)

SeverityObserver == ObserverCallback(TransferHost, Calm)

NextSeverity ==
    \/ SeverityRequest
    \/ SeverityFetchFails
    \/ SeverityClick
    \/ SeverityPageChange
    \/ SeverityMemory
    \/ SeverityStart
    \/ SeverityResource
    \/ SeverityObserver
    \/ ResumeCreateSecurityEvent
    \/ ProvideFeedback

SpecSeverity == Init /\ [][NextSeverity]_vars

\* the rules whose events are fed back as threats
FedBackAsThreat(eventData) ==
    \/ eventData.type = "failed_auth"
    \/ eventData.type = "resource_abuse" /\ eventData.severity = "high"

\* C27: no event has severity critical, so the feedback of
\* createSecurityEvent hands retrainWithFeedback isThreat = true exactly for
\* the failed_auth events of the 4xx rule and the resource_abuse/high events
\* of the memory rule, and false for the events of every other rule.
C27_ThreatFeedbackOnlyForHigh ==
    [][Len(feedbackLog') = Len(feedbackLog) + 1 =>
          /\ \A i \in DOMAIN published : published[i].severity # "critical"
          /\ FeedbackSample.label = 1 <=> FedBackAsThreat(dispatch.task.eventData)
          /\ FeedbackSample.label \in {0, 1}]_vars

\* all eight rules have had their event published and fed back: two of the
\* samples the feedback appended carry label 1
C27_Witness ==
    /\ dispatch = Idle
    /\ microtasks = <<>>
    /\ Cardinality({<<published[i].type, published[i].severity, published[i].source>> :
                        i \in DOMAIN published}) = 8
    /\ Len(feedbackLog) = Len(published)
    /\ Cardinality({i \in DOMAIN mlThreatDetection.trainingData :
                        /\ i > BootstrapSize
                        /\ mlThreatDetection.trainingData[i].label = 1}) = 2

\* ------------------------------------------------------------------------
\* SpecHandles: subscribers keep the functions onSecurityEvent returned and
\* call them, some more than once; a callback may be registered twice
\* ------------------------------------------------------------------------
\* registrations made, and calls of one returned function
MaxHandles == 3

MaxHandleCalls == 2

HandleCallbacks == {1, 2}

\* unsubscribe = securityMonitor.onSecurityEvent(callback)
HandlesSubscribe ==
    /\ Len(handles) < MaxHandles
    /\ \E callback \in HandleCallbacks :
        /\ OnSecurityEvent(callback)
        /\ handles' = Append(handles, [callback |-> callback, calls |-> 0])

\* unsubscribe(), for the function the h-th registration returned
HandlesUnsubscribe ==
    \E h \in DOMAIN handles :
        /\ handles[h].calls < MaxHandleCalls
        /\ CallUnsubscribe(handles[h].callback)
        /\ handles' = [handles EXCEPT ![h].calls = @ + 1]

NextHandles ==
    \/ HandlesSubscribe
    \/ HandlesUnsubscribe

SpecHandles == Init /\ [][NextHandles]_vars

\* registrations of a callback whose unsubscribe function was never called
LiveRegistrations(callback) ==
    Cardinality({h \in DOMAIN handles :
                    handles[h].callback = callback /\ handles[h].calls = 0})

\* entries of the listeners array that hold the callback
Occurrences(callback) ==
    Cardinality({i \in DOMAIN listeners : listeners[i] = callback})

\* C28: the function onSecurityEvent returns is idempotent and local to its
\* registration: a callback is in the listeners array once for every
\* registration of it whose unsubscribe function has not been called,
\* however often the other unsubscribe functions were called and also when
\* the callback was registered more than once.
C28_UnsubscribeIsLocal ==
    \A callback \in HandleCallbacks :
        Occurrences(callback) = LiveRegistrations(callback)

\* a callback registered twice; the first unsubscribe function was called
\* twice, the second never, and the callback is no longer registered
C28_Witness ==
    /\ Len(handles) >= 2
    /\ handles[1].callback = handles[2].callback
    /\ handles[1].calls = 2
    /\ handles[2].calls = 0
    /\ Occurrences(handles[2].callback) = 0

\* ------------------------------------------------------------------------
\* SpecDevices: the periodic scan, the periodic connectivity check and
\* refreshDevices, interleaved
\* ------------------------------------------------------------------------
\* quickConnectivityCheck calls under way at once
MaxRunningChecks == 1

DevicesScanTimer ==
    /\ ~deviceDiscovery.scanInProgress
    /\ ScanTimer

DevicesRangeResolved ==
    \E s \in DOMAIN deviceDiscovery.scans : RangeResolved(s)

DevicesProbeCompletes ==
    \E s \in DOMAIN deviceDiscovery.scans, ip \in ProbedAddresses,
       successful \in BOOLEAN :
        ProbeCompletes(s, ip, successful)

DevicesOwnAddressResolved ==
    \E s \in DOMAIN deviceDiscovery.scans, localIP \in OwnAddresses :
        OwnAddressResolved(s, localIP)

\* one call of refreshDevices is followed
DevicesRefresh ==
    /\ ~deviceDiscovery.cleared
    /\ RefreshDevices

DevicesQuickCheckTimer ==
    /\ Len(deviceDiscovery.checks) < MaxRunningChecks
    /\ QuickCheckTimer

DevicesQuickCheckProbeCompletes ==
    \E c \in DOMAIN deviceDiscovery.checks, result \in BOOLEAN :
        QuickCheckProbeCompletes(c, result)

NextDevices ==
    \/ DevicesScanTimer
    \/ DevicesRangeResolved
    \/ DevicesProbeCompletes
    \/ DevicesOwnAddressResolved
    \/ DevicesRefresh
    \/ DevicesQuickCheckTimer
    \/ DevicesQuickCheckProbeCompletes

SpecDevices == Init /\ [][NextDevices]_vars

\* C30: at most one scanNetwork body runs at a time, scanInProgress being
\* true exactly while one runs; and once refreshDevices has cleared the map,
\* a device that was known before the clear is in getDevices only if a probe
\* that completed after the clear found it responding (the browser's own
\* entry, which addCurrentDevice sets without a probe, apart).
C30_OneScanAndNoStaleDevice ==
    /\ Len(deviceDiscovery.scans) <= 1
    /\ deviceDiscovery.scanInProgress <=> deviceDiscovery.scans # <<>>
    /\ deviceDiscovery.cleared =>
          \A id \in deviceDiscovery.knownAtClear \cap DeviceIds(GetDevices(deviceDiscovery)) :
              id \in deviceDiscovery.foundSince \cup deviceDiscovery.ownSince

\* a device known before the clear is back in the map as offline: a
\* connectivity check that had taken its snapshot before the clear wrote it
\* back after a ping that got no answer
C30_Witness ==
    /\ deviceDiscovery.cleared
    /\ \E i \in DOMAIN deviceDiscovery.devices :
          /\ deviceDiscovery.devices[i].id = "192.168.1.1"
          /\ deviceDiscovery.devices[i].status = "offline"
    /\ "192.168.1.1" \in deviceDiscovery.knownAtClear
    /\ deviceDiscovery.foundSince = {}
    /\ deviceDiscovery.scanInProgress

====
